---- MODULE Spec2Model ----
(***************************************************************************)
(* tel-on-chain web UI: the liquidity-wall analysis pipeline.              *)
(*                                                                         *)
(*   useLiquidityData   (hooks/useLiquidityData.ts)  pair-mode normalizer, *)
(*                       totals, strongest walls, chartData                 *)
(*   StatsSummary       (components/StatsSummary.tsx) aggregate-mode        *)
(*                       partition, totals, strongest levels, ratio, shares *)
(*   TokenAggregatePage (app/token-aggregate/page.tsx) aggregate chartData  *)
(*   LiquidityChart     (components/LiquidityChart.tsx) processedData       *)
(*   useTokenAggregateData, usePoolData (hooks/) request interleavings      *)
(*                                                                         *)
(* Numbers.  Prices and liquidity values are integers; the price ranges    *)
(* have even bounds and the current prices divide 100 * (price - current), *)
(* so the midpoint and the percentage are computed exactly.  A quotient    *)
(* that the code may take with a zero denominator is kept as the pair      *)
(* [num, den]: 0/0 is JavaScript's NaN and x/0 (x > 0) its Infinity.        *)
(* A point's priceRange is kept as the pair of its bounds.  Display-only    *)
(* strings (percentageLabel, symbols) and the pass-through dex_sources are *)
(* left out of the records: no computation of the pipeline reads them.     *)
(***************************************************************************)
EXTENDS Integers, Sequences, FiniteSets, Bags, TLC

VARIABLES
  route,           \* the page that is open: "home" or "token-aggregate"
  apiWalls,        \* what the API answers for the pair (LiquidityWallsResponse)
  apiLevels,       \* what the API answers for the token (LiquidityDistribution)
  \* HomePage + useLiquidityData
  currentView,     \* HomePage currentView: "pools" or "analysis"
  selectedPool,    \* HomePage selectedPool: Null or the pool clicked
  tokens,          \* HomePage tokens: Null or the pair of addresses
  filters,         \* HomePage filters: the params of useLiquidityData
  selectorSubmit,  \* TokenSelector's last onSubmit: its data and its calls
  swrCache,        \* SWR's cache: the data of each key fetched
  swrPending,      \* the keys of which a fetch is in flight
  swrData,         \* useSWR data (undefined while there is none)
  priceType,       \* the open page's priceType state
  processed,       \* useLiquidityData's processedData
  \* TokenAggregatePage + its useTokenAggregateData
  submittedToken,
  aggData,         \* the page hook's data
  aggError,        \* the page hook's error
  aggLoading,      \* the page hook's loading
  aggPending,      \* requests of the page hook in flight: a bag of tokens
  aggChartData,    \* the chartData array of the last render
  \* StatsSummary (+ its own useTokenAggregateData)
  ssData,          \* aggregateData
  ssPending,
  stats,           \* what StatsSummary rendered, Null when it is not rendered
  \* LiquidityChart
  scaleRange,
  chartProcessed,  \* processedData, empty when the chart is not rendered
  \* PoolList + usePoolData
  selectedDex,
  currentPage,
  pools,           \* the pools fetched: of which request, and a full page?
  poolsLoading,
  poolsError,
  poolsPending,    \* requests in flight: a bag of [dex, page]
  \* lib/utils.ts
  fmtCall,         \* a call of formatPrice or formatNumber: its arguments
  fmtResult        \* the string the call returned, Null before it returns

vars == <<route, apiWalls, apiLevels, currentView, selectedPool, tokens, filters,
          selectorSubmit, swrCache, swrPending, swrData,
          priceType, processed, submittedToken, aggData, aggError, aggLoading,
          aggPending,
          aggChartData, ssData, ssPending, stats, scaleRange, chartProcessed,
          selectedDex, currentPage, pools, poolsLoading, poolsError,
          poolsPending, fmtCall, fmtResult>>

\* ------------------------------------------------------------------ bounds
\* at most this many walls / price levels in one upstream response
MaxWalls == 3

\* the value domains of the upstream data: [lower, upper] price ranges with
\* even bounds, current prices, liquidity values
PriceRanges == {<<88, 92>>, <<100, 120>>}
CurrentPrices == {100, 200}
Liquidities == {0, 1}

\* LiquidityChart's slider: min="5" max="50" step="5", useState(10)
ScaleMin == 5
ScaleMax == 50
ScaleStep == 5
ScaleDefault == 10
ScaleValues == {v \in ScaleMin..ScaleMax : (v - ScaleMin) % ScaleStep = 0}

\* ------------------------------------------------------ JavaScript values
Null == [tag |-> "null"]
Undefined == [tag |-> "undefined"]
TypeError == [tag |-> "TypeError"]

\* Array.prototype.sort((a, b) => a[field] - b[field]) is stable (ES2019):
\* insertion of each element after the last element that does not compare
\* greater
RECURSIVE InsertSorted(_, _, _)
InsertSorted(x, sorted, field) ==
  IF sorted = <<>> THEN <<x>>
  ELSE IF sorted[Len(sorted)][field] <= x[field] THEN Append(sorted, x)
  ELSE Append(InsertSorted(x, SubSeq(sorted, 1, Len(sorted) - 1), field),
              sorted[Len(sorted)])

RECURSIVE SortBy(_, _)
SortBy(arr, field) ==
  IF arr = <<>> THEN <<>>
  ELSE InsertSorted(arr[Len(arr)], SortBy(SubSeq(arr, 1, Len(arr) - 1), field),
                    field)

\* a / b as JavaScript computes it (see the header)
JsDiv(a, b) == [num |-> a, den |-> b]
JsNum(a) == [num |-> a, den |-> 1]
IsNaN(x) == x.num = 0 /\ x.den = 0

\* ---------------------------------------------------------- upstream data
\* types/api.ts LiquidityWall
Walls(ranges, liquidities) ==
  {[price_lower |-> r[1], price_upper |-> r[2], liquidity_value |-> l] :
     r \in ranges, l \in liquidities}

\* types/api.ts PriceLiquidity
Sides == {"Buy", "Sell"}
PriceLevels(ranges, liquidities) ==
  {[side |-> s, lower_price |-> r[1], upper_price |-> r[2],
    token1_liquidity |-> l] :
     s \in Sides, r \in ranges, l \in liquidities}

SeqsUpTo(S, n) == UNION {[1..k -> S] : k \in 0..n}

\* ------------------------------------------- useLiquidityData (pair mode)
\* faulty variant: the two lists are swapped
SelectSellWallsSwapped(data, pt) ==
  IF pt = "wall" THEN data.sell_walls_in_current_price
  ELSE data.sell_walls_in_wall_price

\* priceType === 'wall' ? data.sell_walls_in_wall_price
\*                      : data.sell_walls_in_current_price
SelectSellWalls(data, pt) ==
  IF pt = "wall" THEN data.sell_walls_in_wall_price
  ELSE data.sell_walls_in_current_price

\* faulty variant: the accumulator is dropped
AddLiquidityValueNoSum(sum, wall) == wall.liquidity_value

\* (sum, wall) => sum + wall.liquidity_value
AddLiquidityValue(sum, wall) == sum + wall.liquidity_value

\* walls.reduce(AddLiquidityValue, sum): a left fold, which returns the
\* initial value on the empty array
RECURSIVE ReduceLiquidityValue(_, _)
ReduceLiquidityValue(sum, walls) ==
  IF walls = <<>> THEN sum
  ELSE ReduceLiquidityValue(AddLiquidityValue(sum, Head(walls)), Tail(walls))

\* walls.reduce((sum, wall) => sum + wall.liquidity_value, 0)
TotalLiquidity(walls) == ReduceLiquidityValue(0, walls)

\* faulty variant: >= instead of >, so the last of equal walls wins
StrongerOrEqualWall(strongest, wall) ==
  IF strongest = Undefined \/ strongest = TypeError THEN TypeError
  ELSE IF wall.liquidity_value >= strongest.liquidity_value THEN wall
  ELSE strongest

\* (strongest, wall) =>
\*   wall.liquidity_value > strongest.liquidity_value ? wall : strongest
\* reading a property of undefined throws
StrongerWall(strongest, wall) ==
  IF strongest = Undefined \/ strongest = TypeError THEN TypeError
  ELSE IF wall.liquidity_value > strongest.liquidity_value THEN wall
  ELSE strongest

\* walls[0]: undefined when the array is empty
FirstOf(arr) == IF arr = <<>> THEN Undefined ELSE arr[1]

\* walls.reduce(StrongerWall, strongest): a left fold, which returns the
\* initial value, whatever it is, on the empty array
RECURSIVE ReduceStrongerWall(_, _)
ReduceStrongerWall(strongest, walls) ==
  IF walls = <<>> THEN strongest
  ELSE ReduceStrongerWall(StrongerWall(strongest, Head(walls)), Tail(walls))

\* faulty variant: reduce without an initial value, which throws on the
\* empty array
StrongestWallNoInitial(walls) ==
  IF walls = <<>> THEN TypeError
  ELSE ReduceStrongerWall(walls[1], Tail(walls))

\* walls.reduce(StrongerWall, walls[0])
StrongestWall(walls) == ReduceStrongerWall(FirstOf(walls), walls)

\* faulty variant: the parentheses are missing, so only the upper bound is
\* halved
MidPriceNoParentheses(lower, upper) == lower + upper \div 2

\* (wall.price_lower + wall.price_upper) / 2
MidPrice(lower, upper) == (lower + upper) \div 2

BuyPoint(wall) ==
  [priceRange |-> <<wall.price_lower, wall.price_upper>>,
   price |-> MidPrice(wall.price_lower, wall.price_upper),
   buyLiquidity |-> wall.liquidity_value,
   sellLiquidity |-> 0,
   type |-> "buy"]

SellPoint(wall) ==
  [priceRange |-> <<wall.price_lower, wall.price_upper>>,
   price |-> MidPrice(wall.price_lower, wall.price_upper),
   buyLiquidity |-> 0,
   sellLiquidity |-> wall.liquidity_value,
   type |-> "sell"]

\* [...buy_walls.map(..), ...sellWalls.map(..)].sort((a, b) => a.price - b.price)
\* The array literal is a new array: the sort reorders it, and buy_walls and
\* sellWalls are left as they were.  walls: what the call leaves in the two
\* input arrays; chartData: the sorted array.
PairChartData(buy_walls, sellWalls) ==
  [walls |-> <<buy_walls, sellWalls>>,
   chartData |-> SortBy([i \in 1..Len(buy_walls) |-> BuyPoint(buy_walls[i])]
                          \o [i \in 1..Len(sellWalls) |-> SellPoint(sellWalls[i])],
                        "price")]

\* the SWR data after the memo ran: walls is what the chartData expression
\* left in data.buy_walls and in the selected sell list
DataAfterMemo(data, pt, walls) ==
  IF pt = "wall"
  THEN [data EXCEPT !.buy_walls = walls[1], !.sell_walls_in_wall_price = walls[2]]
  ELSE [data EXCEPT !.buy_walls = walls[1], !.sell_walls_in_current_price = walls[2]]

\* return { ...data, totalBuyLiquidity, totalSellLiquidity, strongestBuyWall,
\*          strongestSellWall, chartData }
MemoResult(data, sellWalls, chartData) ==
  [price |-> data.price,
   buy_walls |-> data.buy_walls,
   sell_walls_in_wall_price |-> data.sell_walls_in_wall_price,
   sell_walls_in_current_price |-> data.sell_walls_in_current_price,
   totalBuyLiquidity |-> TotalLiquidity(data.buy_walls),
   totalSellLiquidity |-> TotalLiquidity(sellWalls),
   strongestBuyWall |-> StrongestWall(data.buy_walls),
   strongestSellWall |-> StrongestWall(sellWalls),
   chartData |-> chartData]

\* the memo body after sellWalls was selected and chartData built
MemoBody(data, pt, sellWalls, chart) ==
  [data |-> DataAfterMemo(data, pt, chart.walls),
   processedData |-> MemoResult(data, sellWalls, chart.chartData)]

MemoWithSellWalls(data, pt, sellWalls) ==
  MemoBody(data, pt, sellWalls, PairChartData(data.buy_walls, sellWalls))

\* The useMemo body.  data: the SWR data as the call leaves it;
\* processedData: the value returned.
ProcessedData(data, pt) ==
  IF data = Undefined THEN [data |-> data, processedData |-> Null]
  ELSE MemoWithSellWalls(data, pt, SelectSellWalls(data, pt))

\* --------------------------------------- LiquidityChart (processedData)
\* ((point.price - currentPrice) / currentPrice) * 100
PercentageFromCurrent(price, currentPrice) ==
  ((price - currentPrice) * 100) \div currentPrice

Abs(x) == IF x < 0 THEN -x ELSE x

\* faulty variant: < instead of <=, so a point on the edge of the window is
\* dropped
InScaleStrict(pct, scale) == Abs(pct) < scale

\* point => Math.abs(point.percentageFromCurrent) <= scaleRange
InScale(pct, scale) == Abs(pct) <= scale

\* point => ({ ...point, percentageFromCurrent })
WithPercentage(point, currentPrice) ==
  [priceRange |-> point.priceRange,
   price |-> point.price,
   buyLiquidity |-> point.buyLiquidity,
   sellLiquidity |-> point.sellLiquidity,
   type |-> point.type,
   percentageFromCurrent |-> PercentageFromCurrent(point.price, currentPrice)]

\* data.map(..).filter(..)
VisiblePoints(data, currentPrice, scale) ==
  SelectSeq([i \in 1..Len(data) |-> WithPercentage(data[i], currentPrice)],
            LAMBDA point : InScale(point.percentageFromCurrent, scale))

\* faulty variant: data.sort(..) before the map, which reorders the prop
ChartProcessedDataSortsInput(data, currentPrice, scale) ==
  IF data = <<>> THEN [data |-> data, processedData |-> <<>>]
  ELSE [data |-> SortBy(data, "price"),
        processedData |-> VisiblePoints(SortBy(data, "price"), currentPrice, scale)]

\* data.map(..).filter(..).sort((a, b) => a.percentageFromCurrent - b.percentageFromCurrent)
\* map and filter return new arrays, so the sort leaves data as it was.
\* data: the prop as the call leaves it; processedData: the value returned.
ChartProcessedData(data, currentPrice, scale) ==
  IF data = <<>> THEN [data |-> data, processedData |-> <<>>]
  ELSE [data |-> data,
        processedData |-> SortBy(VisiblePoints(data, currentPrice, scale),
                                 "percentageFromCurrent")]

\* ------------------------------------------------- StatsSummary (render)
Truthy(x) == x # Undefined /\ x # Null

\* number.toFixed(digits): "NaN" and "Infinity" for the non-finite values,
\* else "-" for a value below zero and the magnitude rounded half up at the
\* given digit
Pow10(d) == IF d = 0 THEN 1 ELSE IF d = 1 THEN 10 ELSE 100

\* the magnitude num / den with num >= 0 and den > 0
ToFixedMagnitude(num, den, d) ==
  LET scaled == (2 * num * Pow10(d) + den) \div (2 * den)
      frac == scaled % Pow10(d)
  IN ToString(scaled \div Pow10(d)) \o "."
     \o (IF d = 2 /\ frac < 10 THEN "0" ELSE "") \o ToString(frac)

ToFixed(x, d) ==
  IF x.den = 0 THEN (IF x.num = 0 THEN "NaN" ELSE "Infinity")
  ELSE (IF (x.num < 0) # (x.den < 0) /\ x.num # 0 THEN "-" ELSE "")
       \o ToFixedMagnitude(Abs(x.num), Abs(x.den), d)

\* level => level.side === 'Buy' / 'Sell'
IsBuy(level) == level.side = "Buy"
IsSell(level) == level.side = "Sell"

\* faulty variant: the sum so far is dropped
AddToken1LiquidityNoSum(sum, level) == level.token1_liquidity

\* (sum, level) => sum + level.token1_liquidity
AddToken1Liquidity(sum, level) == sum + level.token1_liquidity

\* levels.reduce((sum, level) => sum + level.token1_liquidity, sum)
RECURSIVE ReduceToken1Liquidity(_, _)
ReduceToken1Liquidity(sum, levels) ==
  IF levels = <<>> THEN sum
  ELSE ReduceToken1Liquidity(AddToken1Liquidity(sum, Head(levels)), Tail(levels))

\* (strongest, level) =>
\*   level.token1_liquidity > strongest.token1_liquidity ? level : strongest
StrongerLevel(strongest, level) ==
  IF strongest = Undefined \/ strongest = TypeError THEN TypeError
  ELSE IF level.token1_liquidity > strongest.token1_liquidity THEN level
  ELSE strongest

\* levels.length > 0 ? levels.reduce(StrongerLevel, levels[0]) : undefined
RECURSIVE ReduceStrongerLevel(_, _)
ReduceStrongerLevel(strongest, levels) ==
  IF levels = <<>> THEN strongest
  ELSE ReduceStrongerLevel(StrongerLevel(strongest, Head(levels)), Tail(levels))

StrongestLevel(levels) ==
  IF Len(levels) > 0 THEN ReduceStrongerLevel(FirstOf(levels), levels)
  ELSE Undefined

\* price_levels.filter(level => level.side === 'Buy')
BuyLevels(price_levels) == SelectSeq(price_levels, IsBuy)

\* price_levels.filter(level => level.side === 'Sell')
SellLevels(price_levels) == SelectSeq(price_levels, IsSell)

\* the displayData useMemo; a property the object literal does not set reads
\* as undefined
AggregateDisplayData(buyLevels, sellLevels, currentPrice) ==
  [totalBuyLiquidity |-> ReduceToken1Liquidity(0, buyLevels),
   totalSellLiquidity |-> ReduceToken1Liquidity(0, sellLevels),
   strongestBuyLevel |-> StrongestLevel(buyLevels),
   strongestSellLevel |-> StrongestLevel(sellLevels),
   strongestBuyWall |-> Undefined,
   strongestSellWall |-> Undefined,
   currentPrice |-> currentPrice,
   isAggregate |-> TRUE]

DisplayData(props, aggregateData) ==
  IF props.mode = "aggregate" /\ Truthy(aggregateData)
  THEN AggregateDisplayData(BuyLevels(aggregateData.price_levels),
                            SellLevels(aggregateData.price_levels),
                            aggregateData.current_price)
  ELSE [totalBuyLiquidity |-> props.totalBuyLiquidity,
        totalSellLiquidity |-> props.totalSellLiquidity,
        strongestBuyLevel |-> Undefined,
        strongestSellLevel |-> Undefined,
        strongestBuyWall |-> props.strongestBuyWall,
        strongestSellWall |-> props.strongestSellWall,
        currentPrice |-> props.currentPrice,
        isAggregate |-> FALSE]

\* faulty variant: the division without the guard
BuyToSellRatioUnguarded(totalBuy, totalSell) == JsDiv(totalBuy, totalSell)

\* totalSellLiquidity > 0 ? totalBuyLiquidity / totalSellLiquidity : 0
BuyToSellRatio(totalBuy, totalSell) ==
  IF totalSell > 0 THEN JsDiv(totalBuy, totalSell) ELSE JsNum(0)

\* (sideTotal / totalLiquidity) * 100
SharePercent(sideTotal, totalLiquidity) == JsDiv(sideTotal * 100, totalLiquidity)

\* (isAggregate && strongestXLevel) || (!isAggregate && strongestXWall)
ShowStrongest(isAggregate, level, wall) ==
  (isAggregate /\ Truthy(level)) \/ (~isAggregate /\ Truthy(wall))

\* what one render of StatsSummary puts on the page
\* const totalLiquidity = totalBuyLiquidity + totalSellLiquidity
SumLiquidity(totalBuy, totalSell) == totalBuy + totalSell

\* the JSX: ratio, shares, bar width, strongest entries
StatsView(displayData, buyToSellRatio, totalLiquidity) ==
  [displayData |-> displayData,
   buyToSellRatio |-> buyToSellRatio,
   ratioText |-> ToFixed(buyToSellRatio, 2),
   totalLiquidity |-> totalLiquidity,
   buyShare |-> SharePercent(displayData.totalBuyLiquidity, totalLiquidity),
   buyShareText |->
     ToFixed(SharePercent(displayData.totalBuyLiquidity, totalLiquidity), 1),
   sellShare |-> SharePercent(displayData.totalSellLiquidity, totalLiquidity),
   sellShareText |->
     ToFixed(SharePercent(displayData.totalSellLiquidity, totalLiquidity), 1),
   barWidth |-> SharePercent(displayData.totalBuyLiquidity, totalLiquidity),
   showStrongestBuy |->
     ShowStrongest(displayData.isAggregate, displayData.strongestBuyLevel,
                   displayData.strongestBuyWall),
   showStrongestSell |->
     ShowStrongest(displayData.isAggregate, displayData.strongestSellLevel,
                   displayData.strongestSellWall)]

StatsOfDisplayData(displayData) ==
  StatsView(displayData,
            BuyToSellRatio(displayData.totalBuyLiquidity,
                           displayData.totalSellLiquidity),
            SumLiquidity(displayData.totalBuyLiquidity,
                         displayData.totalSellLiquidity))

StatsSummary(props, aggregateData) ==
  StatsOfDisplayData(DisplayData(props, aggregateData))

\* ------------------------------------ TokenAggregatePage (chartData)
\* level => level.lower_price != null && level.upper_price != null
\* (a price the response does not carry reads as undefined, which is == null)
HasPrices(level) ==
  "lower_price" \in DOMAIN level /\ "upper_price" \in DOMAIN level

LevelPoint(level) ==
  [priceRange |-> <<level.lower_price, level.upper_price>>,
   price |-> MidPrice(level.lower_price, level.upper_price),
   buyLiquidity |-> IF level.side = "Buy" THEN level.token1_liquidity ELSE 0,
   sellLiquidity |-> IF level.side = "Sell" THEN level.token1_liquidity ELSE 0,
   type |-> IF level.side = "Buy" THEN "buy" ELSE "sell"]

\* data.price_levels.filter(..).map(..)
LevelPoints(price_levels) ==
  [i \in 1..Len(SelectSeq(price_levels, HasPrices)) |->
     LevelPoint(SelectSeq(price_levels, HasPrices)[i])]

\* faulty variant: the levels are shown in the 'current' pricing mode only
AggChartDataByPriceType(data) ==
  IF ~Truthy(data) \/ priceType = "wall" THEN <<>>
  ELSE LevelPoints(data.price_levels)

\* data?.price_levels?.filter(..).map(..) || []
AggChartData(data) ==
  IF ~Truthy(data) THEN <<>>
  ELSE LevelPoints(data.price_levels)

\* ================================================= lib/utils.ts (strings)
\* Numbers.  A non-negative number is kept in decimal: int is its integer
\* part and frac the digits after the point, without trailing zeros.  A
\* string is the sequence of its characters.  Rounding at a digit is half
\* up, which is what toFixed and Intl.NumberFormat do on the decimal value;
\* the values used have no 5 as the last digit below a rounding position, so
\* the binary representation does not decide a rounding.
Zeros(n) == [i \in 1..n |-> 0]

RECURSIVE NatDigits(_)
NatDigits(n) == IF n < 10 THEN <<n>> ELSE Append(NatDigits(n \div 10), n % 10)

DigitChars(digits) == [i \in 1..Len(digits) |-> ToString(digits[i])]

\* the first d digits after the point, zeros after the last one
TakeDigits(frac, d) == [i \in 1..d |-> IF i <= Len(frac) THEN frac[i] ELSE 0]

\* digits + 1 on a fixed number of digits: the carry out, then the digits
RECURSIVE Increment(_)
Increment(digits) ==
  IF digits = <<>> THEN <<1>>
  ELSE IF digits[Len(digits)] < 9
       THEN <<0>> \o SubSeq(digits, 1, Len(digits) - 1)
                  \o <<digits[Len(digits)] + 1>>
       ELSE Append(Increment(SubSeq(digits, 1, Len(digits) - 1)), 0)

\* the value rounded to d digits after the point
RoundAt(x, d) ==
  IF Len(x.frac) > d /\ x.frac[d + 1] >= 5
  THEN [int |-> x.int + Head(Increment(TakeDigits(x.frac, d))),
        frac |-> Tail(Increment(TakeDigits(x.frac, d)))]
  ELSE [int |-> x.int, frac |-> TakeDigits(x.frac, d)]

\* x / divisor for divisor = 10^width
DividedBy(x, divisor, width) ==
  [int |-> x.int \div divisor,
   frac |-> Zeros(width - Len(NatDigits(x.int % divisor)))
              \o NatDigits(x.int % divisor) \o x.frac]

FractionText(frac) == IF frac = <<>> THEN <<>> ELSE <<".">> \o DigitChars(frac)

\* the decimal notation of the digits held: Number.prototype.toString() of a
\* value >= 1e-6
DecimalText(x) == DigitChars(NatDigits(x.int)) \o FractionText(x.frac)

\* Number.prototype.toFixed(d)
NumberToFixed(x, d) == DecimalText(RoundAt(x, d))

\* the en-US grouping of the integer digits
RECURSIVE Grouped(_)
Grouped(chars) ==
  IF Len(chars) <= 3 THEN chars
  ELSE Grouped(SubSeq(chars, 1, Len(chars) - 3)) \o <<",">>
       \o SubSeq(chars, Len(chars) - 2, Len(chars))

\* new Intl.NumberFormat('en-US', { minimumFractionDigits: decimals,
\*                                  maximumFractionDigits: decimals }).format(value)
IntlFormat(value, decimals) ==
  Grouped(DigitChars(NatDigits(RoundAt(value, decimals).int)))
    \o FractionText(RoundAt(value, decimals).frac)

\* const { decimals = 2, compact = false, currency = false } = options || {}
DefaultDecimals == 2
OptionOr(options, field, default) ==
  IF field \in DOMAIN options THEN options[field] ELSE default

\* faulty variant: the thresholds are tested from the smallest up
CompactUnitThousandFirst(value) ==
  IF value.int >= 1000 THEN [divisor |-> 1000, width |-> 3, suffix |-> "K"]
  ELSE IF value.int >= 1000000
       THEN [divisor |-> 1000000, width |-> 6, suffix |-> "M"]
  ELSE IF value.int >= 1000000000
       THEN [divisor |-> 1000000000, width |-> 9, suffix |-> "B"]
  ELSE Null

\* if (value >= 1e9) .. if (value >= 1e6) .. if (value >= 1e3) ..
CompactUnit(value) ==
  IF value.int >= 1000000000
  THEN [divisor |-> 1000000000, width |-> 9, suffix |-> "B"]
  ELSE IF value.int >= 1000000
       THEN [divisor |-> 1000000, width |-> 6, suffix |-> "M"]
  ELSE IF value.int >= 1000 THEN [divisor |-> 1000, width |-> 3, suffix |-> "K"]
  ELSE Null

\* `${currency ? '$' : ''}${(value / 1e9).toFixed(decimals)}B`
CompactText(value, unit, decimals, currency) ==
  (IF currency THEN <<"$">> ELSE <<>>)
    \o NumberToFixed(DividedBy(value, unit.divisor, unit.width), decimals)
    \o <<unit.suffix>>

\* formatNumber(value, options)
FormatNumber(value, options) ==
  IF OptionOr(options, "compact", FALSE) /\ CompactUnit(value) # Null
  THEN CompactText(value, CompactUnit(value),
                   OptionOr(options, "decimals", DefaultDecimals),
                   OptionOr(options, "currency", FALSE))
  ELSE (IF OptionOr(options, "currency", FALSE) THEN <<"$">> ELSE <<>>)
         \o IntlFormat(value, OptionOr(options, "decimals", DefaultDecimals))

\* token1Symbol ? ` ${token1Symbol}` : ''  (the empty string is falsy)
PriceSuffix(token1Symbol) ==
  IF Truthy(token1Symbol) /\ token1Symbol.text # <<>>
  THEN <<" ">> \o token1Symbol.text
  ELSE <<>>

\* price === 0
IsZero(price) == price.int = 0 /\ \A i \in 1..Len(price.frac) : price.frac[i] = 0

\* price < 1e-6
BelowMillionth(price) ==
  price.int = 0 /\ \A i \in 1..6 : i <= Len(price.frac) => price.frac[i] = 0

\* const priceStr = price < 1e-6 ? price.toFixed(12) : price.toString()
PriceStr(price) ==
  IF BelowMillionth(price) THEN NumberToFixed(price, 12) ELSE DecimalText(price)

\* String.prototype.indexOf: the 0-based index of the first occurrence, -1
\* when there is none
IndexOf(str, ch) ==
  IF \E i \in 1..Len(str) : str[i] = ch
  THEN (CHOOSE i \in 1..Len(str) :
          str[i] = ch /\ \A j \in 1..(i - 1) : str[j] # ch) - 1
  ELSE -1

\* let leadingZeros = 0;
\* for (let i = decimalIndex + 1; i < priceStr.length; i++)
\*   if (priceStr[i] === '0') leadingZeros++; else break;
\* (i is 0-based: priceStr[i] is the character at position i + 1)
RECURSIVE CountZeros(_, _, _)
CountZeros(priceStr, i, leadingZeros) ==
  IF i < Len(priceStr) /\ priceStr[i + 1] = "0"
  THEN CountZeros(priceStr, i + 1, leadingZeros + 1)
  ELSE leadingZeros

Min(a, b) == IF a < b THEN a ELSE b

\* the cap on the decimals of a price below 1
MaxPriceDecimals == 12

\* faulty variant: four digits are added to the default of 6 and not to the
\* zeros counted
SmallPriceDecimalsFromDefault(leadingZeros) ==
  IF leadingZeros >= 3 THEN Min(6 + 4, MaxPriceDecimals) ELSE 6

\* let decimals = 6;
\* if (leadingZeros >= 3) decimals = Math.min(leadingZeros + 4, 12);
SmallPriceDecimals(leadingZeros) ==
  IF leadingZeros >= 3 THEN Min(leadingZeros + 4, MaxPriceDecimals) ELSE 6

\* the part of formatPrice for 0 < price < 1
SmallPrice(price, suffix) ==
  IF IndexOf(PriceStr(price), ".") = -1
  THEN FormatNumber(price, [decimals |-> 6]) \o suffix
  ELSE FormatNumber(price,
                    [decimals |->
                       SmallPriceDecimals(
                         CountZeros(PriceStr(price),
                                    IndexOf(PriceStr(price), ".") + 1, 0))])
         \o suffix

\* faulty variant: the earlier formatPrice, which gives every price below 1
\* six decimals
FormatPriceSixBelowOne(price, token1Symbol) ==
  IF price.int >= 1000
  THEN FormatNumber(price, [decimals |-> 2]) \o PriceSuffix(token1Symbol)
  ELSE IF price.int >= 1
       THEN FormatNumber(price, [decimals |-> 4]) \o PriceSuffix(token1Symbol)
  ELSE FormatNumber(price, [decimals |-> 6]) \o PriceSuffix(token1Symbol)

\* formatPrice(price, token1Symbol)
FormatPrice(price, token1Symbol) ==
  IF price.int >= 1000
  THEN FormatNumber(price, [decimals |-> 2]) \o PriceSuffix(token1Symbol)
  ELSE IF price.int >= 1
       THEN FormatNumber(price, [decimals |-> 4]) \o PriceSuffix(token1Symbol)
  ELSE IF IsZero(price) THEN <<"0">> \o PriceSuffix(token1Symbol)
  ELSE SmallPrice(price, PriceSuffix(token1Symbol))

\* =================================================================== pages
HomeRoute == "home"
AggregateRoute == "token-aggregate"

\* a token address is the sequence of its characters: "0x" and 40 times ch
Address(ch) == <<"0", "x">> \o [i \in 1..40 |-> ch]

\* the pools of the list: one with two tokens, and one the API lists with a
\* single token
PairPool == [tokens |-> <<[address |-> Address("c")], [address |-> Address("a")]>>]
SingleTokenPool == [tokens |-> <<[address |-> Address("c")]>>]

\* the pair of the pool with two tokens (pool.tokens[0..1].address)
SelectedPair ==
  [token0 |-> PairPool.tokens[1].address, token1 |-> PairPool.tokens[2].address]
\* exampleTokens (a token address is held as [address |-> ..], so that it
\* compares with null)
ExampleTokens == {[address |-> "WETH"], [address |-> "LINK"]}
ExampleToken == [address |-> "WETH"]

\* what the API answers for a token: the distribution, of that token
ResponseFor(levels, t) ==
  [token0 |-> t, current_price |-> levels.current_price,
   price_levels |-> levels.price_levels]

TokenResponse(t) == ResponseFor(apiLevels, t)

\* ----------------------------------------------- PoolList + usePoolData
\* the <option>s of the DEX filter, and the pages of the pool list
Dexes == {"all", "uniswap_v3"}
MaxPage == 2
FirstPage == 1
Pages == FirstPage..MaxPage
PoolParams == [dex : Dexes, page : Pages]

\* useState<Pool[]>([])
NoPools == [request |-> Null, full |-> FALSE]

\* what the API answers for a request: the pools of that DEX and page; a
\* page before the last one holds itemsPerPage pools
PoolsOf(q) == [request |-> q, full |-> q.page < MaxPage]

\* PoolList with its usePoolData as constructed: useState('all'),
\* useState(1), useState([]), useState(true), useState(null); the effect has
\* called fetchPools
PoolListMounted ==
  [selectedDex |-> "all", currentPage |-> FirstPage, pools |-> NoPools,
   poolsLoading |-> TRUE, poolsError |-> Null,
   poolsPending |-> SetToBag({[dex |-> "all", page |-> FirstPage]})]

\* PoolList not rendered: its state is gone and its requests are answered to
\* nobody
PoolListUnmounted == [PoolListMounted EXCEPT !.poolsPending = EmptyBag]

\* the state the handlers write; the rest is what a render derives from it
Base ==
  [currentView |-> currentView, selectedPool |-> selectedPool,
   tokens |-> tokens, filters |-> filters, selectorSubmit |-> selectorSubmit,
   swrCache |-> swrCache, swrPending |-> swrPending,
   swrData |-> swrData, priceType |-> priceType,
   submittedToken |-> submittedToken, aggData |-> aggData,
   aggError |-> aggError, aggLoading |-> aggLoading,
   aggPending |-> aggPending, ssData |-> ssData, ssPending |-> ssPending,
   scaleRange |-> scaleRange,
   selectedDex |-> selectedDex, currentPage |-> currentPage, pools |-> pools,
   poolsLoading |-> poolsLoading, poolsError |-> poolsError,
   poolsPending |-> poolsPending]

WithPoolList(b, pl) ==
  [b EXCEPT !.selectedDex = pl.selectedDex, !.currentPage = pl.currentPage,
            !.pools = pl.pools, !.poolsLoading = pl.poolsLoading,
            !.poolsError = pl.poolsError, !.poolsPending = pl.poolsPending]

\* HomePage: <StatsSummary totalBuyLiquidity={data.totalBuyLiquidity} ...
\*            mode={statsMode} /> with statsMode = 'pair'
PairStatsProps(data) ==
  [mode |-> "pair",
   totalBuyLiquidity |-> data.totalBuyLiquidity,
   totalSellLiquidity |-> data.totalSellLiquidity,
   strongestBuyWall |-> data.strongestBuyWall,
   strongestSellWall |-> data.strongestSellWall,
   currentPrice |-> data.price]

\* TokenAggregatePage: <StatsSummary totalBuyLiquidity={0}
\*   totalSellLiquidity={0} currentPrice={data.current_price} mode="aggregate"
\*   tokenAddress={submittedToken} />
AggregateStatsProps(data) ==
  [mode |-> "aggregate",
   totalBuyLiquidity |-> 0,
   totalSellLiquidity |-> 0,
   strongestBuyWall |-> Undefined,
   strongestSellWall |-> Undefined,
   currentPrice |-> data.current_price]

\* HomePage renders chart and summary under
\* {currentView === 'analysis' && .. {tokens && .. {data && ..
HomeShowsData(b, data) ==
  b.currentView = "analysis" /\ Truthy(b.tokens) /\ Truthy(data)

\* TokenAggregatePage renders them under {data && submittedToken && ..}
AggregateShowsData(b) == Truthy(b.aggData) /\ Truthy(b.submittedToken)

\* One render of the open page after the handlers wrote b: every memo whose
\* inputs changed is recomputed, and the components are mounted or unmounted.
\* The result names the next value of every variable a render decides.
HomeShown(b, memo, chart) ==
  [swrData |-> memo.data,
   processed |-> [memo.processedData EXCEPT !.chartData = chart.data],
   aggData |-> Null, aggChartData |-> <<>>,
   ssData |-> Null, ssPending |-> EmptyBag,
   stats |-> StatsSummary(PairStatsProps(memo.processedData), Null),
   scaleRange |-> b.scaleRange,
   chartProcessed |-> chart.processedData]

HomeHidden(memo) ==
  [swrData |-> memo.data,
   processed |-> memo.processedData,
   aggData |-> Null, aggChartData |-> <<>>,
   ssData |-> Null, ssPending |-> EmptyBag,
   stats |-> Null,
   scaleRange |-> ScaleDefault,
   chartProcessed |-> <<>>]

RenderHomeMemo(b, memo) ==
  IF HomeShowsData(b, memo.processedData)
  THEN HomeShown(b, memo, ChartProcessedData(memo.processedData.chartData,
                                             memo.processedData.price,
                                             b.scaleRange))
  ELSE HomeHidden(memo)

RenderHome(b) == RenderHomeMemo(b, ProcessedData(b.swrData, b.priceType))

\* StatsSummary's own useTokenAggregateData({tokenAddress}).  prev: whether
\* the summary was rendered before, and its tokenAddress then.  Mounted, it
\* starts with data = null and its effect sends a request; rendered with
\* another tokenAddress, the effect sends another one and the data stays.
SummaryHookData(b, prev) == IF prev.shown THEN b.ssData ELSE Null

SummaryHookPending(b, prev) ==
  IF ~prev.shown THEN SetToBag({b.submittedToken})
  ELSE IF prev.token # b.submittedToken
       THEN b.ssPending (+) SetToBag({b.submittedToken})
       ELSE b.ssPending

AggregateShown(b, prev, chart) ==
  [swrData |-> b.swrData,
   processed |-> Null,
   aggData |-> b.aggData, aggChartData |-> chart.data,
   ssData |-> SummaryHookData(b, prev),
   ssPending |-> SummaryHookPending(b, prev),
   stats |-> StatsSummary(AggregateStatsProps(b.aggData), SummaryHookData(b, prev)),
   scaleRange |-> b.scaleRange,
   chartProcessed |-> chart.processedData]

\* unmounted, the summary's state is gone and its requests are answered to
\* nobody
AggregateHidden(b, chartData) ==
  [swrData |-> b.swrData,
   processed |-> Null,
   aggData |-> b.aggData, aggChartData |-> chartData,
   ssData |-> Null, ssPending |-> EmptyBag,
   stats |-> Null,
   scaleRange |-> ScaleDefault,
   chartProcessed |-> <<>>]

RenderAggregate(b, prev) ==
  IF AggregateShowsData(b)
  THEN AggregateShown(b, prev,
                      ChartProcessedData(AggChartData(b.aggData),
                                         b.aggData.current_price, b.scaleRange))
  ELSE AggregateHidden(b, AggChartData(b.aggData))

Render(rt, b, prev) ==
  IF rt = HomeRoute THEN RenderHome(b) ELSE RenderAggregate(b, prev)

\* nothing rendered before
NotRendered == [shown |-> FALSE, token |-> Null]

\* what the last render showed
Rendered ==
  [shown |-> Truthy(aggData) /\ Truthy(submittedToken), token |-> submittedToken]

\* the handlers' writes followed by the render
Commit(b) ==
  \E r \in {Render(route, b, Rendered)} :
     /\ currentView' = b.currentView
     /\ selectedPool' = b.selectedPool
     /\ tokens' = b.tokens
     /\ filters' = b.filters
     /\ selectorSubmit' = b.selectorSubmit
     /\ swrCache' = b.swrCache
     /\ swrPending' = b.swrPending
     /\ swrData' = r.swrData
     /\ priceType' = b.priceType
     /\ processed' = r.processed
     /\ submittedToken' = b.submittedToken
     /\ aggData' = r.aggData
     /\ aggError' = b.aggError
     /\ aggLoading' = b.aggLoading
     /\ aggPending' = b.aggPending
     /\ aggChartData' = r.aggChartData
     /\ ssData' = r.ssData
     /\ ssPending' = r.ssPending
     /\ stats' = r.stats
     /\ scaleRange' = r.scaleRange
     /\ chartProcessed' = r.chartProcessed
     /\ selectedDex' = b.selectedDex
     /\ currentPage' = b.currentPage
     /\ pools' = b.pools
     /\ poolsLoading' = b.poolsLoading
     /\ poolsError' = b.poolsError
     /\ poolsPending' = b.poolsPending
     /\ UNCHANGED <<route, apiWalls, apiLevels, fmtCall, fmtResult>>

\* at most this many requests of one hook in flight
MaxInflight == 2

\* ------------------------------------------------------------ PoolList
\* <PoolList> is rendered under {currentView === 'pools' && ..}
PoolListShown == route = HomeRoute /\ currentView = "pools"

\* PoolList returns the loading box while loading and the error box on an
\* error; else the filter, the list and the pagination
PoolControlsShown == PoolListShown /\ ~poolsLoading /\ poolsError = Null

\* fetchPools up to its await: setLoading(true); setError(null); the request
\* is sent
FetchPools(b, q) ==
  [b EXCEPT !.poolsLoading = TRUE, !.poolsError = Null,
            !.poolsPending = @ (+) SetToBag({q})]

\* handleDexChange(dex) = setSelectedDex(dex).  The render with the new dex
\* runs usePoolData's effect (fetchPools with the new dex and the page as it
\* is) and PoolList's effect setCurrentPage(1); if that changes the page,
\* the next render runs fetchPools again, with page 1.
HandleDexChange(d) ==
  /\ PoolControlsShown
  /\ d # selectedDex
  /\ BagCardinality(poolsPending) + (IF currentPage = FirstPage THEN 1 ELSE 2)
       <= MaxInflight
  /\ Commit(IF currentPage = FirstPage
            THEN FetchPools([Base EXCEPT !.selectedDex = d],
                            [dex |-> d, page |-> currentPage])
            ELSE FetchPools(FetchPools([Base EXCEPT !.selectedDex = d,
                                                    !.currentPage = FirstPage],
                                       [dex |-> d, page |-> currentPage]),
                            [dex |-> d, page |-> FirstPage]))

\* totalPages={Math.max(1, currentPage + (pools.length === itemsPerPage ? 1 : 0))}
TotalPages == currentPage + (IF pools.full THEN 1 ELSE 0)

\* handlePageChange(page) = setCurrentPage(page); the pagination stands
\* under the list and is rendered when pools.length === itemsPerPage
HandlePageChange(p) ==
  /\ PoolControlsShown
  /\ pools.full
  /\ p <= TotalPages
  /\ p # currentPage
  /\ BagCardinality(poolsPending) < MaxInflight
  /\ Commit(FetchPools([Base EXCEPT !.currentPage = p],
                       [dex |-> selectedDex, page |-> p]))

\* "Try Again" in the error box: refresh() = fetchPools()
PoolsRefresh ==
  /\ PoolListShown
  /\ ~poolsLoading
  /\ poolsError # Null
  /\ BagCardinality(poolsPending) < MaxInflight
  /\ Commit(FetchPools(Base, [dex |-> selectedDex, page |-> currentPage]))

\* a request resolves: setPools(fetchedPools); finally setLoading(false)
PoolsFetchSuccess(q) ==
  /\ PoolListShown
  /\ BagIn(q, poolsPending)
  /\ Commit([Base EXCEPT !.poolsPending = @ (-) SetToBag({q}),
                         !.pools = PoolsOf(q), !.poolsLoading = FALSE])

\* a request rejects: setError(..); finally setLoading(false)
PoolsFetchFailure(q) ==
  /\ PoolListShown
  /\ BagIn(q, poolsPending)
  /\ Commit([Base EXCEPT !.poolsPending = @ (-) SetToBag({q}),
                         !.poolsError = [message |-> "Failed to fetch pools"],
                         !.poolsLoading = FALSE])

\* ------------------------------------------------------------ HomePage
\* faulty variant: the pricing mode is part of the key
SwrKeyWithPriceType(b) ==
  IF ~Truthy(b.tokens) THEN Null
  ELSE [name |-> "liquidity-walls", token0 |-> b.tokens.token0,
        token1 |-> b.tokens.token1, params |-> b.filters,
        priceType |-> b.priceType]

\* the key memo: null without both addresses, else
\* ['liquidity-walls', token0Address, token1Address, params]; params is the
\* filters state
SwrKey(b) ==
  IF ~Truthy(b.tokens) THEN Null
  ELSE [name |-> "liquidity-walls", token0 |-> b.tokens.token0,
        token1 |-> b.tokens.token1, params |-> b.filters]

\* useSWR(key, fetcher) in the render after the handlers wrote new: with
\* the key it had, nothing; with a null key, no data and no fetch; with
\* another key, the cached data of the key (undefined for a key never
\* fetched) and a fetch of it (one request per key is in flight)
UseSwr(old, new) ==
  IF SwrKey(new) = SwrKey(old) THEN new
  ELSE IF SwrKey(new) = Null THEN [new EXCEPT !.swrData = Undefined]
  ELSE [new EXCEPT !.swrData = IF SwrKey(new) \in DOMAIN new.swrCache
                                THEN new.swrCache[SwrKey(new)]
                                ELSE Undefined,
                   !.swrPending = @ \cup {SwrKey(new)}]

\* handlePoolSelect(pool): setSelectedPool(pool); if (pool.tokens.length >= 2)
\* { setTokens({token0: pool.tokens[0].address, token1: pool.tokens[1].address});
\*   setCurrentView('analysis') }
PoolSelected(b, pool) ==
  IF Len(pool.tokens) >= 2
  THEN [b EXCEPT !.selectedPool = pool,
                 !.tokens = [token0 |-> pool.tokens[1].address,
                             token1 |-> pool.tokens[2].address],
                 !.currentView = "analysis"]
  ELSE [b EXCEPT !.selectedPool = pool]

\* a click on a pool of the list.  With two tokens the SWR key becomes
\* non-null, useSWR returns the cached data and fetches, and the pool list
\* is unmounted with the pools view; else the list stays.
HandlePoolSelect(pool) ==
  /\ PoolControlsShown
  /\ pools.request # Null
  /\ Commit(IF PoolSelected(Base, pool).currentView = "analysis"
            THEN WithPoolList(UseSwr(Base, PoolSelected(Base, pool)),
                              PoolListUnmounted)
            ELSE PoolSelected(Base, pool))

\* faulty variant: the tokens are kept
HandleBackToPoolsKeepsTokens ==
  /\ route = HomeRoute
  /\ currentView = "analysis"
  /\ Commit(WithPoolList([Base EXCEPT !.currentView = "pools",
                                      !.selectedPool = Null],
                         PoolListMounted))

\* handleBackToPools ("Back to Pools", rendered with the analysis view):
\* setCurrentView('pools'); setSelectedPool(null); setTokens(null); the key
\* is null and data undefined
HandleBackToPools ==
  /\ route = HomeRoute
  /\ currentView = "analysis"
  /\ Commit(WithPoolList(UseSwr(Base, [Base EXCEPT !.currentView = "pools",
                                                   !.selectedPool = Null,
                                                   !.tokens = Null]),
                         PoolListMounted))

\* isValidAddress(address) = /^0x[a-fA-F0-9]{40}$/.test(address)
IsValidAddress(address) ==
  /\ Len(address) = 42
  /\ address[1] = "0"
  /\ address[2] = "x"
  /\ \A i \in 3..42 :
       address[i] \in {"0", "1", "2", "3", "4", "5", "6", "7", "8", "9",
                       "a", "b", "c", "d", "e", "f",
                       "A", "B", "C", "D", "E", "F"}

\* faulty variant: only the first address is tested
OnSubmitTestsToken0(data) ==
  IF ~IsValidAddress(data.token0) THEN <<>>
  ELSE <<[fn |-> "onTokensChange", token0 |-> data.token0, token1 |-> data.token1],
         [fn |-> "onFiltersChange",
          newFilters |-> [chainId |-> [id |-> data.chainId],
                          dex |-> IF data.dex = "" THEN Undefined
                                  ELSE [name |-> data.dex]]]>>

\* TokenSelector.onSubmit(data): the calls of the page's callbacks it makes,
\* in their order.  if (!isValidAddress(data.token0) ||
\* !isValidAddress(data.token1)) return; onTokensChange(data.token0,
\* data.token1); onFiltersChange({chainId: data.chainId, dex: data.dex ||
\* undefined}).  (A number or a name that may be undefined is held as
\* [id |-> ..] or [name |-> ..].)
OnSubmit(data) ==
  IF ~IsValidAddress(data.token0) \/ ~IsValidAddress(data.token1) THEN <<>>
  ELSE <<[fn |-> "onTokensChange", token0 |-> data.token0, token1 |-> data.token1],
         [fn |-> "onFiltersChange",
          newFilters |-> [chainId |-> [id |-> data.chainId],
                          dex |-> IF data.dex = "" THEN Undefined
                                  ELSE [name |-> data.dex]]]>>

\* the callbacks: onTokensChange = handleTokensChange, which is
\* setTokens({token0, token1}); onFiltersChange = handleFiltersChange, which
\* is setFilters(newFilters)
RECURSIVE Called(_, _)
Called(b, calls) ==
  IF calls = <<>> THEN b
  ELSE IF Head(calls).fn = "onTokensChange"
       THEN Called([b EXCEPT !.tokens = [token0 |-> Head(calls).token0,
                                         token1 |-> Head(calls).token1]],
                   Tail(calls))
       ELSE Called([b EXCEPT !.filters = Head(calls).newFilters], Tail(calls))

\* the form of the token selector is submitted with data (the selector is
\* rendered with the analysis view); the render that follows uses the key
\* of the new tokens and filters
SelectorSubmit(data) ==
  /\ route = HomeRoute
  /\ currentView = "analysis"
  /\ Cardinality(swrPending) < MaxInflight
  /\ Commit(UseSwr(Base,
                   Called([Base EXCEPT !.selectorSubmit =
                                         [data |-> data, calls |-> OnSubmit(data)]],
                          OnSubmit(data))))

\* the fetcher's promise resolves: apiClient.getLiquidityWalls(..); the
\* data goes to the cache of its key, and to the hook when that is its key
SwrResolve(key) ==
  /\ route = HomeRoute
  /\ key \in swrPending
  /\ Commit([Base EXCEPT !.swrPending = @ \ {key},
                         !.swrCache = (key :> apiWalls) @@ @,
                         !.swrData = IF SwrKey(Base) = key THEN apiWalls ELSE @])

\* refreshInterval, revalidateOnFocus, revalidateOnReconnect, handleRefresh
SwrRevalidate ==
  /\ route = HomeRoute
  /\ tokens # Null
  /\ SwrKey(Base) \notin swrPending
  /\ Commit([Base EXCEPT !.swrPending = @ \cup {SwrKey(Base)}])

\* LiquidityChart returns the "No liquidity data available" box, without the
\* toggle and the slider, when data is empty
ChartShown ==
  IF route = HomeRoute THEN HomeShowsData(Base, processed)
  ELSE Truthy(aggData) /\ Truthy(submittedToken)

ChartControlsShown ==
  /\ ChartShown
  /\ IF route = HomeRoute THEN processed.chartData # <<>> ELSE aggChartData # <<>>

\* onPriceTypeChange(type) = setPriceType(type); on the home page the
\* pricing mode is an argument of useLiquidityData
SetPriceType(t) ==
  /\ ChartControlsShown
  /\ t # priceType
  /\ Commit(UseSwr(Base, [Base EXCEPT !.priceType = t]))

\* the slider's onChange: setScaleRange(Number(e.target.value))
SetScaleRange(v) ==
  /\ ChartControlsShown
  /\ v # scaleRange
  /\ Commit([Base EXCEPT !.scaleRange = v])

\* -------------------------------------------------- TokenAggregatePage
\* fetchData with a tokenAddress, up to its await: setLoading(true);
\* setError(null); the request is sent
FetchData(b, t) ==
  [b EXCEPT !.aggLoading = TRUE, !.aggError = Null,
            !.aggPending = @ (+) SetToBag({t})]

\* faulty variant: the missing address is reported as an error
FetchDataNoTokenSetsError(b) ==
  [b EXCEPT !.aggData = Null, !.aggError = [message |-> "No token address"]]

\* fetchData without a tokenAddress: setData(null); return
FetchDataNoToken(b) == [b EXCEPT !.aggData = Null]

\* an example button: setSubmittedToken(token.address); the hook's effect
\* runs fetchData, which sends a request
SubmitToken(t) ==
  /\ route = AggregateRoute
  /\ t # submittedToken
  /\ BagCardinality(aggPending) < MaxInflight
  /\ BagCardinality(ssPending) < MaxInflight
  /\ Commit(FetchData([Base EXCEPT !.submittedToken = t], t))

\* handleClear: setSubmittedToken(null); the hook's effect runs fetchData,
\* which finds no tokenAddress
HandleClear ==
  /\ route = AggregateRoute
  /\ submittedToken # Null
  /\ Commit(FetchDataNoToken([Base EXCEPT !.submittedToken = Null]))

\* a request of the page's hook resolves: setData(result); finally
\* setLoading(false)
AggFetchSuccess(t) ==
  /\ route = AggregateRoute
  /\ BagIn(t, aggPending)
  /\ Commit([Base EXCEPT !.aggPending = @ (-) SetToBag({t}),
                         !.aggData = TokenResponse(t), !.aggLoading = FALSE])

\* a request of the page's hook rejects: setError(..); setData(null);
\* finally setLoading(false)
AggFetchFailure(t) ==
  /\ route = AggregateRoute
  /\ BagIn(t, aggPending)
  /\ Commit([Base EXCEPT !.aggPending = @ (-) SetToBag({t}),
                         !.aggError = [message |-> "Failed to fetch aggregate liquidity data"],
                         !.aggData = Null, !.aggLoading = FALSE])

\* a request of StatsSummary's hook resolves: setData(result)
SsFetchSuccess(t) ==
  /\ route = AggregateRoute
  /\ BagIn(t, ssPending)
  /\ Commit([Base EXCEPT !.ssPending = @ (-) SetToBag({t}),
                         !.ssData = TokenResponse(t)])

\* a request of StatsSummary's hook rejects: setData(null)
SsFetchFailure(t) ==
  /\ route = AggregateRoute
  /\ BagIn(t, ssPending)
  /\ Commit([Base EXCEPT !.ssPending = @ (-) SetToBag({t}), !.ssData = Null])

\* Liquidity Overview, "Total Liquidity":
\* data.price_levels.reduce((sum, level) => sum + level.token1_liquidity, 0)
OverviewTotalLiquidity(data) == ReduceToken1Liquidity(0, data.price_levels)

\* ------------------------------------------------------- specifications
\* the responses the API may give: at most MaxWalls walls in the three lists
WallLists(nb, nw, nc, prices, walls) ==
  {[price |-> p, buy_walls |-> b, sell_walls_in_wall_price |-> w,
    sell_walls_in_current_price |-> c] :
      p \in prices, b \in [1..nb -> walls], w \in [1..nw -> walls],
      c \in [1..nc -> walls]}

PairResponses(prices, walls) ==
  UNION {WallLists(n[1], n[2], n[3], prices, walls) :
           n \in {m \in (0..MaxWalls) \X (0..MaxWalls) \X (0..MaxWalls) :
                    m[1] + m[2] + m[3] <= MaxWalls}}

AggregateResponses(prices, levels) ==
  {[current_price |-> p, price_levels |-> l] :
     p \in prices, l \in SeqsUpTo(levels, MaxWalls)}

\* the pages as they are constructed: useState initial values, no data
InitBase(pt, pl) ==
  WithPoolList(
    [currentView |-> "pools", selectedPool |-> Null, tokens |-> Null,
     filters |-> [chainId |-> Undefined, dex |-> Undefined],
     selectorSubmit |-> Null, swrCache |-> <<>>, swrPending |-> {},
     swrData |-> Undefined, priceType |-> pt, submittedToken |-> Null,
     aggData |-> Null, aggError |-> Null, aggLoading |-> FALSE,
     aggPending |-> EmptyBag,
     ssData |-> Null,
     ssPending |-> EmptyBag, scaleRange |-> ScaleDefault,
     selectedDex |-> "all", currentPage |-> FirstPage, pools |-> NoPools,
     poolsLoading |-> TRUE, poolsError |-> Null, poolsPending |-> EmptyBag],
    pl)

HomeConstructed == InitBase("wall", PoolListMounted)
AggregateConstructed == InitBase("current", PoolListUnmounted)

InitPage(rt, walls, levels, b) ==
  \E r \in {Render(rt, b, NotRendered)} :
     /\ route = rt
     /\ apiWalls = walls
     /\ apiLevels = levels
     /\ currentView = b.currentView
     /\ selectedPool = b.selectedPool
     /\ tokens = b.tokens
     /\ filters = b.filters
     /\ selectorSubmit = b.selectorSubmit
     /\ swrCache = b.swrCache
     /\ swrPending = b.swrPending
     /\ swrData = r.swrData
     /\ priceType = b.priceType
     /\ processed = r.processed
     /\ submittedToken = b.submittedToken
     /\ aggData = r.aggData
     /\ aggError = b.aggError
     /\ aggLoading = b.aggLoading
     /\ aggPending = b.aggPending
     /\ aggChartData = r.aggChartData
     /\ ssData = r.ssData
     /\ ssPending = r.ssPending
     /\ stats = r.stats
     /\ scaleRange = r.scaleRange
     /\ chartProcessed = r.chartProcessed
     /\ selectedDex = b.selectedDex
     /\ currentPage = b.currentPage
     /\ pools = b.pools
     /\ poolsLoading = b.poolsLoading
     /\ poolsError = b.poolsError
     /\ poolsPending = b.poolsPending

\* no call of a formatter is looked at
InitWith(rt, walls, levels, b) ==
  /\ InitPage(rt, walls, levels, b)
  /\ fmtCall = Null
  /\ fmtResult = Null

\* The statistics pipeline of both pages.  The page is opened on either
\* route; the API's answer is fixed for the run.  The pool list is loaded
\* and a pool selected, or the first example token is analysed.
StatsPrices == {100}

Init ==
  \/ \E walls \in PairResponses(StatsPrices, Walls(PriceRanges, Liquidities)) :
       InitWith(HomeRoute, walls, Null, HomeConstructed)
  \/ \E levels \in AggregateResponses(StatsPrices,
                                        PriceLevels(PriceRanges, Liquidities)) :
       InitWith(AggregateRoute, Null, levels, AggregateConstructed)

Next ==
  \/ \E q \in PoolParams : PoolsFetchSuccess(q)
  \/ HandlePoolSelect(PairPool)
  \/ HandleBackToPools
  \/ \E key \in swrPending : SwrResolve(key)
  \/ SwrRevalidate
  \/ \E t \in {"wall", "current"} : SetPriceType(t)
  \/ SubmitToken(ExampleToken)
  \/ HandleClear
  \/ \E t \in ExampleTokens : AggFetchSuccess(t)
  \/ \E t \in ExampleTokens : AggFetchFailure(t)
  \/ \E t \in ExampleTokens : SsFetchSuccess(t)
  \/ \E t \in ExampleTokens : SsFetchFailure(t)

Spec == Init /\ [][Next]_vars

\* The statistics pipeline fed with malformed levels: among the walls and
\* the price levels of the response are an inverted price range and a
\* negative liquidity value.
MalformedPriceRanges == {<<100, 120>>, <<120, 100>>}
MalformedLiquidities == {-1, 1}

InitMalformed ==
  \/ \E walls \in PairResponses(StatsPrices,
                                 Walls(MalformedPriceRanges, MalformedLiquidities)) :
       InitWith(HomeRoute, walls, Null, HomeConstructed)
  \/ \E levels \in AggregateResponses(StatsPrices,
                                        PriceLevels(MalformedPriceRanges,
                                                    MalformedLiquidities)) :
       InitWith(AggregateRoute, Null, levels, AggregateConstructed)

SpecMalformed == InitMalformed /\ [][Next]_vars

\* The chart of both pages.  The page is open with the API's answer
\* arrived (the pool selected and the walls fetched, or the token submitted
\* and the distribution fetched); the user moves the scale slider and
\* switches the pricing mode.
PairArrived(walls) ==
  [PoolSelected(InitBase("wall", PoolListUnmounted), PairPool) EXCEPT
     !.swrCache = SwrKey(PoolSelected(InitBase("wall", PoolListUnmounted),
                                      PairPool)) :> walls,
     !.swrData = walls]

AggregateArrived(levels) ==
  [AggregateConstructed EXCEPT
     !.submittedToken = ExampleToken,
     !.aggData = ResponseFor(levels, ExampleToken)]

\* the chart reads the prices of the walls, so the walls differ in price
\* range and carry one liquidity value; the first two ranges overlap
ChartPriceRanges == {<<70, 110>>, <<100, 120>>, <<140, 160>>}
ChartLiquidities == {1}

InitChart ==
  \/ \E walls \in PairResponses(CurrentPrices,
                                 Walls(ChartPriceRanges, ChartLiquidities)) :
       InitWith(HomeRoute, walls, Null, PairArrived(walls))
  \/ \E levels \in AggregateResponses(CurrentPrices,
                                       PriceLevels(ChartPriceRanges, ChartLiquidities)) :
       InitWith(AggregateRoute, Null, levels, AggregateArrived(levels))

NextChart ==
  \/ \E v \in ScaleValues : SetScaleRange(v)
  \/ \E t \in {"wall", "current"} : SetPriceType(t)

SpecChart == InitChart /\ [][NextChart]_vars

\* The requests of usePoolData and useTokenAggregateData.  The API's answer
\* carries no walls and no levels; the user filters and pages the pool list,
\* selects a pool and goes back, or analyses one example token after another.
HooksWalls ==
  [price |-> 100, buy_walls |-> <<>>, sell_walls_in_wall_price |-> <<>>,
   sell_walls_in_current_price |-> <<>>]

HooksLevels == [current_price |-> 100, price_levels |-> <<>>]

InitHooks ==
  \/ InitWith(HomeRoute, HooksWalls, Null, HomeConstructed)
  \/ InitWith(AggregateRoute, Null, HooksLevels, AggregateConstructed)

NextHooks ==
  \/ \E d \in Dexes : HandleDexChange(d)
  \/ \E p \in Pages : HandlePageChange(p)
  \/ PoolsRefresh
  \/ \E q \in PoolParams : PoolsFetchSuccess(q)
  \/ \E q \in PoolParams : PoolsFetchFailure(q)
  \/ HandlePoolSelect(PairPool)
  \/ HandleBackToPools
  \/ \E key \in swrPending : SwrResolve(key)
  \/ \E t \in ExampleTokens : SubmitToken(t)
  \/ HandleClear
  \/ \E t \in ExampleTokens : AggFetchSuccess(t)
  \/ \E t \in ExampleTokens : AggFetchFailure(t)
  \/ \E t \in ExampleTokens : SsFetchSuccess(t)
  \/ \E t \in ExampleTokens : SsFetchFailure(t)

SpecHooks == InitHooks /\ [][NextHooks]_vars

\* The home page with its token selector.  The pool list is loaded, a pool
\* is clicked, and in the analysis view the form of the selector is
\* submitted: addresses of 40 hex digits in lower, upper and mixed case, one
\* with a digit that is not hex, with 39 and with 41 digits, with "0X", and
\* the empty string; the DEX left empty or chosen.
FormInputs ==
  [token0 : {Address("c")}, token1 : {Address("a")}, chainId : {1},
   dex : {"", "uniswap_v3"}]
  \cup [token0 : {<<"0", "x">> \o [i \in 1..40 |-> IF i % 2 = 0 THEN "f" ELSE "F"]},
        token1 : {Address("A")}, chainId : {1}, dex : {""}]
  \cup [token0 : {Address("g"), SubSeq(Address("c"), 1, 41),
                  Append(Address("c"), "c"), <<"0", "X">> \o [i \in 1..40 |-> "c"],
                  <<>>},
        token1 : {Address("a")}, chainId : {1}, dex : {""}]
  \cup [token0 : {Address("c"), <<>>}, token1 : {Address("g")}, chainId : {1},
        dex : {"uniswap_v3"}]

NextSelector ==
  \/ \E q \in PoolParams : PoolsFetchSuccess(q)
  \/ \E pool \in {PairPool, SingleTokenPool} : HandlePoolSelect(pool)
  \/ HandleBackToPools
  \/ \E data \in FormInputs : SelectorSubmit(data)
  \/ \E key \in swrPending : SwrResolve(key)

SpecSelector ==
  InitWith(HomeRoute, HooksWalls, Null, HomeConstructed) /\ [][NextSelector]_vars

\* The formatters of lib/utils.ts.  A call of formatPrice or formatNumber is
\* made with arguments from the sets below, and returns.
\* prices below 1 have up to this many zeros after the point
MaxLeadingZeros == 13

\* the calls made.  formatPrice: prices below 1 with 0..MaxLeadingZeros zeros
\* after the point, prices from 1, and 0; token1Symbol not passed, the empty
\* string, or a symbol.  formatNumber: values around the thresholds, with and
\* without each option.
FormatCalls ==
  {[fn |-> "formatPrice", price |-> [int |-> 0, frac |-> Zeros(z) \o m],
    token1Symbol |-> t] :
     z \in 0..MaxLeadingZeros,
     m \in {<<1>>, <<1, 2, 3>>, <<1, 2, 3, 4, 6>>, <<9, 9, 9, 9, 9, 9, 9, 9>>},
     t \in {Undefined, [text |-> <<>>], [text |-> <<"U", "S", "D", "C">>]}}
  \cup {[fn |-> "formatPrice", price |-> [int |-> n, frac |-> f],
         token1Symbol |-> t] :
          n \in {0, 1, 999, 1000, 1234567},
          f \in {<<>>, <<4, 6, 7, 8, 9>>, <<9, 9, 9, 9, 6>>},
          t \in {Undefined, [text |-> <<>>], [text |-> <<"U", "S", "D", "C">>]}}
  \cup {[fn |-> "formatNumber", value |-> [int |-> n, frac |-> f],
         options |-> o] :
          n \in {0, 999, 1000, 1500, 999999, 1000000, 2500000, 999999999,
                 1000000000, 2000000000},
          f \in {<<>>, <<2, 6>>, <<9, 9, 9>>},
          o \in {Undefined,
                 [compact |-> TRUE],
                 [compact |-> TRUE, currency |-> TRUE],
                 [compact |-> TRUE, decimals |-> 0],
                 [compact |-> TRUE, decimals |-> 4, currency |-> TRUE],
                 [compact |-> FALSE, currency |-> TRUE],
                 [decimals |-> 4],
                 [decimals |-> 0, currency |-> TRUE]}}

pageVars == <<route, apiWalls, apiLevels, currentView, selectedPool, tokens,
              filters, selectorSubmit, swrCache, swrPending, swrData,
              priceType, processed, submittedToken, aggData, aggError,
              aggLoading, aggPending, aggChartData, ssData, ssPending, stats, scaleRange,
              chartProcessed, selectedDex, currentPage, pools, poolsLoading,
              poolsError, poolsPending>>

InitFormat ==
  /\ InitPage(HomeRoute, HooksWalls, Null, HomeConstructed)
  /\ fmtCall \in FormatCalls
  /\ fmtResult = Null

CallFormatPrice ==
  /\ fmtCall # Null
  /\ fmtCall.fn = "formatPrice"
  /\ fmtResult = Null
  /\ fmtResult' = [text |-> FormatPrice(fmtCall.price, fmtCall.token1Symbol)]
  /\ UNCHANGED <<pageVars, fmtCall>>

CallFormatNumber ==
  /\ fmtCall # Null
  /\ fmtCall.fn = "formatNumber"
  /\ fmtResult = Null
  /\ fmtResult' = [text |-> FormatNumber(fmtCall.value, fmtCall.options)]
  /\ UNCHANGED <<pageVars, fmtCall>>

NextFormat == CallFormatPrice \/ CallFormatNumber

SpecFormat == InitFormat /\ [][NextFormat]_vars


\* ================================================================= claims
\* the sum of a sequence of numbers, from the right
RECURSIVE SeqSum(_)
SeqSum(vals) ==
  IF vals = <<>> THEN 0
  ELSE vals[Len(vals)] + SeqSum(SubSeq(vals, 1, Len(vals) - 1))

LiquidityValues(walls) == [i \in 1..Len(walls) |-> walls[i].liquidity_value]

\* the indices of the levels of one side, and the sequence of those levels
\* in their original order
SideIndices(levels, side) == {i \in 1..Len(levels) : levels[i].side = side}

KthOf(idx, k) == CHOOSE i \in idx : Cardinality({j \in idx : j <= i}) = k

SideLevels(levels, side) ==
  [k \in 1..Cardinality(SideIndices(levels, side)) |->
     levels[KthOf(SideIndices(levels, side), k)]]

Token1Liquidities(levels) == [i \in 1..Len(levels) |-> levels[i].token1_liquidity]

\* the sell list the pricing mode names
SelectedSellList(data, pt) ==
  IF pt = "wall" THEN data.sell_walls_in_wall_price
  ELSE data.sell_walls_in_current_price

\* the pair page shows processed data; the summary shows aggregate data
PairDataShown == route = HomeRoute /\ processed # Null
AggregateStatsShown ==
  route = AggregateRoute /\ stats # Null /\ stats.displayData.isAggregate

\* C2: the totals are the sums of the liquidity values of the buy levels and
\* of the selected sell levels, 0 for an empty side and never negative: in
\* pair mode over liquidity_value of buy_walls and of the sell list of the
\* pricing mode, in aggregate mode over token1_liquidity of the Buy and of
\* the Sell levels.
C2_TotalsAreSums ==
  /\ PairDataShown =>
       /\ processed.totalBuyLiquidity = SeqSum(LiquidityValues(swrData.buy_walls))
       /\ processed.totalSellLiquidity =
            SeqSum(LiquidityValues(SelectedSellList(swrData, priceType)))
       /\ processed.totalBuyLiquidity >= 0
       /\ processed.totalSellLiquidity >= 0
       /\ stats # Null =>
            /\ stats.displayData.totalBuyLiquidity = processed.totalBuyLiquidity
            /\ stats.displayData.totalSellLiquidity = processed.totalSellLiquidity
  /\ AggregateStatsShown =>
       /\ stats.displayData.totalBuyLiquidity =
            SeqSum(Token1Liquidities(SideLevels(ssData.price_levels, "Buy")))
       /\ stats.displayData.totalSellLiquidity =
            SeqSum(Token1Liquidities(SideLevels(ssData.price_levels, "Sell")))
       /\ stats.displayData.totalBuyLiquidity >= 0
       /\ stats.displayData.totalSellLiquidity >= 0

\* pair mode with two buy walls that count and a non-empty selected sell list
C2_Witness ==
  /\ PairDataShown
  /\ stats # Null
  /\ processed.totalBuyLiquidity = 2
  /\ processed.totalSellLiquidity = 1
  /\ Len(swrData.buy_walls) = 2

\* the first index at which the largest value stands
FirstMaxIndex(vals) ==
  CHOOSE i \in 1..Len(vals) :
    /\ \A j \in 1..Len(vals) : vals[j] <= vals[i]
    /\ \A j \in 1..(i - 1) : vals[j] < vals[i]

\* walls is empty, or x is the first wall of walls with the largest
\* liquidity_value
IsFirstStrongestWall(x, walls) ==
  walls # <<>> => x = walls[FirstMaxIndex(LiquidityValues(walls))]

IsFirstStrongestLevel(x, levels) ==
  levels # <<>> => x = levels[FirstMaxIndex(Token1Liquidities(levels))]

\* C3: the strongest level of a side has the largest liquidity value of the
\* side, and of several levels with that value it is the one that comes
\* first in the input, whatever the order of the input: in pair mode over
\* buy_walls and the selected sell list, in aggregate mode over the Buy and
\* the Sell levels.
C3_StrongestIsFirstMax ==
  /\ PairDataShown =>
       /\ IsFirstStrongestWall(processed.strongestBuyWall, swrData.buy_walls)
       /\ IsFirstStrongestWall(processed.strongestSellWall,
                               SelectedSellList(swrData, priceType))
  /\ AggregateStatsShown =>
       /\ IsFirstStrongestLevel(stats.displayData.strongestBuyLevel,
                                SideLevels(ssData.price_levels, "Buy"))
       /\ IsFirstStrongestLevel(stats.displayData.strongestSellLevel,
                                SideLevels(ssData.price_levels, "Sell"))

\* three buy walls, not in price order, the largest value standing twice on
\* different walls after a smaller one
C3_Witness ==
  /\ PairDataShown
  /\ Len(swrData.buy_walls) = 3
  /\ swrData.buy_walls[1].liquidity_value = 0
  /\ swrData.buy_walls[2].liquidity_value = 1
  /\ swrData.buy_walls[3].liquidity_value = 1
  /\ swrData.buy_walls[2] # swrData.buy_walls[3]
  /\ swrData.buy_walls[2].price_lower > swrData.buy_walls[3].price_lower
  /\ processed.strongestBuyWall = swrData.buy_walls[2]

\* C4: the buy/sell ratio is 0 when totalSellLiquidity is 0, and the quotient
\* totalBuyLiquidity / totalSellLiquidity otherwise; it is never the result
\* of a division by zero.
C4_RatioGuarded ==
  stats # Null =>
    /\ stats.displayData.totalSellLiquidity = 0 =>
         /\ stats.buyToSellRatio = JsNum(0)
         /\ stats.ratioText = "0.00"
    /\ stats.displayData.totalSellLiquidity # 0 =>
         /\ stats.buyToSellRatio.num = stats.displayData.totalBuyLiquidity
         /\ stats.buyToSellRatio.den = stats.displayData.totalSellLiquidity
    /\ stats.buyToSellRatio.den # 0
    /\ stats.ratioText \notin {"NaN", "Infinity"}

\* buy liquidity and no sell liquidity
C4_Witness ==
  /\ stats # Null
  /\ stats.displayData.totalSellLiquidity = 0
  /\ stats.displayData.totalBuyLiquidity > 0
  /\ stats.buyToSellRatio = JsNum(0)

\* C5: in every display state of StatsSummary the buy share, the sell share
\* and the width of the ratio bar are numbers (0 when the combined total is
\* 0), never not-a-number.
C5_SharesAreNumbers ==
  stats # Null =>
    /\ ~IsNaN(stats.buyShare)
    /\ ~IsNaN(stats.sellShare)
    /\ ~IsNaN(stats.barWidth)
    /\ stats.buyShareText # "NaN"
    /\ stats.sellShareText # "NaN"

\* the response with the sell list the pricing mode does not name emptied
WithoutUnselected(data, pt) ==
  IF pt = "wall" THEN [data EXCEPT !.sell_walls_in_current_price = <<>>]
  ELSE [data EXCEPT !.sell_walls_in_wall_price = <<>>]

PointsOfType(chartData, type) ==
  SelectSeq(chartData, LAMBDA p : p.type = type)

\* every point of the given type stands for one wall of walls
PointsFromWalls(points, walls) ==
  /\ Len(points) = Len(walls)
  /\ \A i \in 1..Len(points) :
       \E j \in 1..Len(walls) :
         /\ points[i].priceRange = <<walls[j].price_lower, walls[j].price_upper>>
         /\ points[i].buyLiquidity + points[i].sellLiquidity = walls[j].liquidity_value

\* the results of the memo that depend on the sell walls
SellResults(data) ==
  <<data.totalSellLiquidity, data.strongestSellWall, data.chartData>>

\* C7: in pair mode the sell list of the pricing mode is used ('wall':
\* sell_walls_in_wall_price, 'current': sell_walls_in_current_price) and the
\* other is discarded: totalSellLiquidity, strongestSellWall and chartData
\* are what they would be with the other list empty, and the sell points of
\* chartData stand for the walls of the named list; buy_walls is used in
\* either mode.
C7_SellListByPriceType ==
  PairDataShown =>
    /\ SellResults(processed) =
         SellResults(ProcessedData(WithoutUnselected(swrData, priceType),
                                   priceType).processedData)
    /\ PointsFromWalls(PointsOfType(processed.chartData, "sell"),
                       SelectedSellList(swrData, priceType))
    /\ PointsFromWalls(PointsOfType(processed.chartData, "buy"), swrData.buy_walls)
    /\ processed.totalBuyLiquidity = SeqSum(LiquidityValues(swrData.buy_walls))

\* the 'current' mode chosen with the two sell lists differing in length and
\* in liquidity
C7_Witness ==
  /\ PairDataShown
  /\ priceType = "current"
  /\ Len(swrData.sell_walls_in_wall_price) = 2
  /\ Len(swrData.sell_walls_in_current_price) = 1
  /\ SeqSum(LiquidityValues(swrData.sell_walls_in_wall_price)) = 2
  /\ processed.totalSellLiquidity = 0
  /\ Len(PointsOfType(processed.chartData, "sell")) = 1

\* levels is split into buy and sell by the side tag, in the original order
IsPartitionBySide(levels, buy, sell) ==
  /\ buy = SideLevels(levels, "Buy")
  /\ sell = SideLevels(levels, "Sell")
  /\ Len(buy) + Len(sell) = Len(levels)
  /\ \A i \in 1..Len(buy) : buy[i].side = "Buy"
  /\ \A i \in 1..Len(sell) : sell[i].side = "Sell"

C8_Partition ==
  AggregateStatsShown =>
    IsPartitionBySide(ssData.price_levels, BuyLevels(ssData.price_levels),
                      SellLevels(ssData.price_levels))

C8_PriceTypeIgnored ==
  (route = AggregateRoute /\ priceType' # priceType) =>
    /\ aggChartData' = aggChartData
    /\ chartProcessed' = chartProcessed
    /\ stats' = stats

\* C8: in aggregate mode every level of price_levels lands in exactly one of
\* the buy and sell sequences according to its side, in the original order,
\* and the pricing mode is ignored: a change of priceType on the
\* token-aggregate page changes neither the chart data nor the statistics.
C8_PartitionAndPriceTypeIgnored ==
  /\ []C8_Partition
  /\ [][C8_PriceTypeIgnored]_vars

\* the pricing mode was switched to 'wall' while levels of both sides,
\* interleaved, are charted and summarised
C8_Witness ==
  /\ AggregateStatsShown
  /\ priceType = "wall"
  /\ Len(ssData.price_levels) = 3
  /\ ssData.price_levels[1].side = "Sell"
  /\ ssData.price_levels[2].side = "Buy"
  /\ ssData.price_levels[3].side = "Sell"
  /\ Len(aggChartData) = 3
  /\ chartProcessed # <<>>

\* C9: a side without levels has no strongest level (undefined), its
\* strongest-wall entry is not shown, and computing it does not throw, in
\* pair mode and in aggregate mode.
C9_EmptySideHasNoStrongest ==
  /\ PairDataShown =>
       /\ processed.strongestBuyWall # TypeError
       /\ processed.strongestSellWall # TypeError
       /\ swrData.buy_walls = <<>> => processed.strongestBuyWall = Undefined
       /\ SelectedSellList(swrData, priceType) = <<>> =>
            processed.strongestSellWall = Undefined
       /\ stats # Null =>
            /\ swrData.buy_walls = <<>> => ~stats.showStrongestBuy
            /\ SelectedSellList(swrData, priceType) = <<>> => ~stats.showStrongestSell
  /\ AggregateStatsShown =>
       /\ stats.displayData.strongestBuyLevel # TypeError
       /\ stats.displayData.strongestSellLevel # TypeError
       /\ SideIndices(ssData.price_levels, "Buy") = {} =>
            /\ stats.displayData.strongestBuyLevel = Undefined
            /\ ~stats.showStrongestBuy
       /\ SideIndices(ssData.price_levels, "Sell") = {} =>
            /\ stats.displayData.strongestSellLevel = Undefined
            /\ ~stats.showStrongestSell

\* pair mode: buy walls and an empty selected sell list, the other sell list
\* not empty
C9_Witness ==
  /\ PairDataShown
  /\ stats # Null
  /\ swrData.buy_walls # <<>>
  /\ SelectedSellList(swrData, priceType) = <<>>
  /\ SelectedSellList(swrData, IF priceType = "wall" THEN "current" ELSE "wall") # <<>>
  /\ stats.showStrongestBuy
  /\ ~stats.showStrongestSell

\* the props of the rendered LiquidityChart
ChartDataProp == IF route = HomeRoute THEN processed.chartData ELSE aggChartData
CurrentPriceProp ==
  IF route = HomeRoute THEN processed.price ELSE aggData.current_price

\* the distance of a price from the current price, in percent of it
PercentOff(price, currentPrice) == (100 * (price - currentPrice)) \div currentPrice
WithinScale(price, currentPrice, scale) ==
  /\ PercentOff(price, currentPrice) <= scale
  /\ PercentOff(price, currentPrice) >= -scale

\* a point of the series without the percentage the builder added
InputPoint(q) == [f \in DOMAIN q \ {"percentageFromCurrent"} |-> q[f]]
InputPoints(series) == [i \in 1..Len(series) |-> InputPoint(series[i])]
Occurrences(arr, x) == Cardinality({i \in 1..Len(arr) : arr[i] = x})

\* C1: for a current price > 0 and a scale window > 0 the series of
\* LiquidityChart (processedData) is ascending in percentageFromCurrent,
\* every element of it is within the window, and every input point within
\* the window is in it exactly as often as in the input: only the points
\* outside the window are filtered out.
C1_SeriesSortedAndWindowed ==
  ChartShown =>
    /\ CurrentPriceProp > 0 /\ scaleRange > 0
    /\ \A i, j \in 1..Len(chartProcessed) :
         i < j => chartProcessed[i].percentageFromCurrent
                    <= chartProcessed[j].percentageFromCurrent
    /\ \A i \in 1..Len(chartProcessed) :
         /\ chartProcessed[i].percentageFromCurrent =
              PercentOff(chartProcessed[i].price, CurrentPriceProp)
         /\ WithinScale(chartProcessed[i].price, CurrentPriceProp, scaleRange)
         /\ \E k \in 1..Len(ChartDataProp) :
              ChartDataProp[k] = InputPoint(chartProcessed[i])
    /\ \A k \in 1..Len(ChartDataProp) :
         WithinScale(ChartDataProp[k].price, CurrentPriceProp, scaleRange) =>
           Occurrences(InputPoints(chartProcessed), ChartDataProp[k]) =
             Occurrences(ChartDataProp, ChartDataProp[k])

\* the aggregate page with three levels out of price order, the slider
\* moved off its default: one point on the edge of the window, one inside
\* and one outside
C1_Witness ==
  /\ ChartShown
  /\ route = AggregateRoute
  /\ scaleRange = 45
  /\ CurrentPriceProp = 200
  /\ Len(ChartDataProp) = 3
  /\ ChartDataProp[1].price = 150
  /\ ChartDataProp[2].price = 90
  /\ ChartDataProp[3].price = 110
  /\ Len(chartProcessed) = 2
  /\ chartProcessed[1].price = 110
  /\ chartProcessed[2].price = 150

C10_InputsUnmodified ==
  /\ (route = HomeRoute /\ Truthy(swrData)) => swrData = apiWalls
  /\ ChartShown =>
       /\ route = HomeRoute =>
            ChartDataProp = PairChartData(apiWalls.buy_walls,
                                          SelectedSellList(apiWalls, priceType)).chartData
       /\ route = AggregateRoute => ChartDataProp = AggChartData(apiLevels)

C10_SameArgumentsSameSeries ==
  (/\ ChartShown /\ ChartShown'
   /\ ChartDataProp' = ChartDataProp
   /\ CurrentPriceProp' = CurrentPriceProp
   /\ scaleRange' = scaleRange) => chartProcessed' = chartProcessed

PageHookSettled ==
  /\ route = AggregateRoute
  /\ BagCardinality(aggPending) = 0
  /\ Truthy(aggData) /\ Truthy(submittedToken)

SummaryHookSettled ==
  /\ route = AggregateRoute
  /\ BagCardinality(ssPending) = 0
  /\ Truthy(ssData) /\ Truthy(submittedToken)

PoolHookSettled ==
  /\ PoolListShown
  /\ BagCardinality(poolsPending) = 0
  /\ poolsError = Null
  /\ pools.request # Null

\* C6: a request for a superseding input does not race with a request still
\* in flight: in useTokenAggregateData and in usePoolData, once every
\* request has completed the data kept is the result of the request for the
\* latest parameters, never the result of a superseded request.
C6_LatestRequestWins ==
  /\ PageHookSettled => aggData.token0 = submittedToken
  /\ SummaryHookSettled => ssData.token0 = submittedToken
  /\ PoolHookSettled =>
       pools.request = [dex |-> selectedDex, page |-> currentPage]

\* the points of a series at one price, in the order of the series
PointsAtPrice(series, price) == SelectSeq(series, LAMBDA p : p.price = price)

\* the points of a series that the scale window shows
PointsInWindow(series, currentPrice, scale) ==
  SelectSeq(series, LAMBDA p : WithinScale(p.price, currentPrice, scale))

\* no sell point stands before a buy point of the same price
BuyBeforeSellAtEqualPrice(series) ==
  \A i, j \in 1..Len(series) :
    (i < j /\ series[i].price = series[j].price) =>
      ~(series[i].type = "sell" /\ series[j].type = "buy")

\* C11: the sort of the chart series is stable: points with the same
\* percentage from the current price (the same midpoint price) stand in the
\* order they had in the input of the chart, and of a buy and a sell point
\* with the same price the buy point comes first, for the series built from
\* the walls of a pair as for the series built from the price levels of a
\* token.
C11_StableBuyBeforeSell ==
  ChartShown =>
    /\ \A k \in 1..Len(chartProcessed) :
         PointsAtPrice(InputPoints(chartProcessed), chartProcessed[k].price) =
           PointsAtPrice(PointsInWindow(ChartDataProp, CurrentPriceProp, scaleRange),
                         chartProcessed[k].price)
    /\ BuyBeforeSellAtEqualPrice(ChartDataProp)
    /\ BuyBeforeSellAtEqualPrice(chartProcessed)

\* the level a point of the chart stands for: a wall of the response in pair
\* mode, a price level in aggregate mode
IsPointOfWall(point, wall, type) ==
  /\ point.type = type
  /\ point.priceRange = <<wall.price_lower, wall.price_upper>>
  /\ 2 * point.price = wall.price_lower + wall.price_upper
  /\ point.buyLiquidity = (IF type = "buy" THEN wall.liquidity_value ELSE 0)
  /\ point.sellLiquidity = (IF type = "sell" THEN wall.liquidity_value ELSE 0)

IsPointOfLevel(point, level) ==
  /\ point.type = (IF level.side = "Buy" THEN "buy" ELSE "sell")
  /\ point.priceRange = <<level.lower_price, level.upper_price>>
  /\ 2 * point.price = level.lower_price + level.upper_price
  /\ point.buyLiquidity = (IF level.side = "Buy" THEN level.token1_liquidity ELSE 0)
  /\ point.sellLiquidity = (IF level.side = "Sell" THEN level.token1_liquidity ELSE 0)

IsPointOfSomeWall(point, walls, type) ==
  \E i \in 1..Len(walls) : IsPointOfWall(point, walls[i], type)

\* C12: every point of the chart stands for a level: its price is the
\* midpoint (lower + upper) / 2 of the level's range, its buyLiquidity is the
\* level's value if the level is a buy level and 0 otherwise, its
\* sellLiquidity the level's value if it is a sell level and 0 otherwise (at
\* most one of the two is not 0), and its percentageFromCurrent is
\* (price - currentPrice) / currentPrice * 100.
C12_PointFields ==
  ChartShown =>
    /\ Len(ChartDataProp) =
         (IF route = HomeRoute
          THEN Len(swrData.buy_walls) + Len(SelectedSellList(swrData, priceType))
          ELSE Len(aggData.price_levels))
    /\ \A k \in 1..Len(ChartDataProp) :
         /\ route = HomeRoute =>
              \/ IsPointOfSomeWall(ChartDataProp[k], swrData.buy_walls, "buy")
              \/ IsPointOfSomeWall(ChartDataProp[k],
                                   SelectedSellList(swrData, priceType), "sell")
         /\ route = AggregateRoute =>
              IsPointOfLevel(ChartDataProp[k], aggData.price_levels[k])
         /\ ChartDataProp[k].buyLiquidity = 0 \/ ChartDataProp[k].sellLiquidity = 0
    /\ \A i \in 1..Len(chartProcessed) :
         /\ chartProcessed[i].percentageFromCurrent * CurrentPriceProp =
              (chartProcessed[i].price - CurrentPriceProp) * 100
         /\ \E k \in 1..Len(ChartDataProp) :
              ChartDataProp[k] = InputPoint(chartProcessed[i])

\* a pair with a buy wall below and a sell wall above the current price, both
\* inside the window the slider was moved to
C12_Witness ==
  /\ ChartShown
  /\ route = HomeRoute
  /\ CurrentPriceProp = 100
  /\ scaleRange = 15
  /\ Len(chartProcessed) = 2
  /\ chartProcessed[1].type = "buy"
  /\ chartProcessed[1].price = 90
  /\ chartProcessed[1].percentageFromCurrent = -10
  /\ chartProcessed[1].buyLiquidity = 1
  /\ chartProcessed[2].type = "sell"
  /\ chartProcessed[2].price = 110
  /\ chartProcessed[2].percentageFromCurrent = 10
  /\ chartProcessed[2].sellLiquidity = 1

\* two levels overlap when their price ranges share more than an end point
RangesOverlap(r1, r2) == r1[1] < r2[2] /\ r2[1] < r1[2]

\* C19: in the series the chart builder emits, the buy levels and the sell
\* levels are each in ascending order of price, and no two levels of one side
\* have overlapping price ranges.
C19_SidesOrderedAndDisjoint ==
  ChartShown =>
    \A i, j \in 1..Len(chartProcessed) :
      (i < j /\ chartProcessed[i].type = chartProcessed[j].type) =>
        /\ chartProcessed[i].price <= chartProcessed[j].price
        /\ ~RangesOverlap(chartProcessed[i].priceRange, chartProcessed[j].priceRange)

\* a well-formed level: priceLower <= priceUpper and liquidityValue >= 0
IsWellFormedWall(wall) ==
  wall.price_lower <= wall.price_upper /\ wall.liquidity_value >= 0

IsWellFormedLevel(level) ==
  level.lower_price <= level.upper_price /\ level.token1_liquidity >= 0

WellFormedWalls(walls) == SelectSeq(walls, IsWellFormedWall)
WellFormedLevels(levels) == SelectSeq(levels, IsWellFormedLevel)

\* the strongest of the well-formed elements, none when there is none
IsStrongestWellFormedWall(x, walls) ==
  /\ x # TypeError
  /\ IsFirstStrongestWall(x, WellFormedWalls(walls))
  /\ WellFormedWalls(walls) = <<>> => x = Undefined

IsStrongestWellFormedLevel(x, levels) ==
  /\ x # TypeError
  /\ IsFirstStrongestLevel(x, WellFormedLevels(levels))
  /\ WellFormedLevels(levels) = <<>> => x = Undefined

\* C13: a malformed level (priceLower > priceUpper, or a negative liquidity
\* value) is discarded from the aggregation: the totals are the sums over
\* the well-formed levels, the strongest level of a side is the strongest
\* well-formed one, and the results for the other levels are produced
\* without a fault.
C13_MalformedDiscarded ==
  /\ PairDataShown =>
       /\ processed.totalBuyLiquidity =
            SeqSum(LiquidityValues(WellFormedWalls(swrData.buy_walls)))
       /\ processed.totalSellLiquidity =
            SeqSum(LiquidityValues(WellFormedWalls(SelectedSellList(swrData, priceType))))
       /\ IsStrongestWellFormedWall(processed.strongestBuyWall, swrData.buy_walls)
       /\ IsStrongestWellFormedWall(processed.strongestSellWall,
                                    SelectedSellList(swrData, priceType))
  /\ AggregateStatsShown =>
       /\ stats.displayData.totalBuyLiquidity =
            SeqSum(Token1Liquidities(WellFormedLevels(SideLevels(ssData.price_levels, "Buy"))))
       /\ stats.displayData.totalSellLiquidity =
            SeqSum(Token1Liquidities(WellFormedLevels(SideLevels(ssData.price_levels, "Sell"))))
       /\ IsStrongestWellFormedLevel(stats.displayData.strongestBuyLevel,
                                     SideLevels(ssData.price_levels, "Buy"))
       /\ IsStrongestWellFormedLevel(stats.displayData.strongestSellLevel,
                                     SideLevels(ssData.price_levels, "Sell"))

\* no raw response: useSWR has no data for the pair, the hook none for the
\* token
NoPairResponse == route = HomeRoute /\ ~Truthy(swrData)
NoTokenResponse == route = AggregateRoute /\ ~Truthy(aggData)

C14_NoDataValue ==
  /\ NoPairResponse =>
       /\ processed = Null
       /\ stats = Null
       /\ chartProcessed = <<>>
  /\ NoTokenResponse =>
       /\ aggChartData = <<>>
       /\ stats = Null
       /\ chartProcessed = <<>>
  /\ (ChartShown /\ ChartDataProp = <<>>) => chartProcessed = <<>>
  /\ processed # TypeError
  /\ stats # TypeError

\* the error of the hook is set by a request that completes (a rejected
\* one), and by no other step
C14_ErrorStaysUnset ==
  (/\ route = AggregateRoute
   /\ aggError = Null
   /\ BagCardinality(aggPending') >= BagCardinality(aggPending)) => aggError' = Null

BuyResults(data) == <<data.totalBuyLiquidity, data.strongestBuyWall>>

\* the pair page shows data and the user changes the pricing mode or the
\* scale window
PairParameterChange ==
  /\ PairDataShown
  /\ tokens # Null
  /\ priceType' # priceType \/ scaleRange' # scaleRange

C20_ParameterChange ==
  PairParameterChange =>
    /\ swrPending' = swrPending
    /\ swrCache' = swrCache
    /\ swrData' = swrData
    /\ swrData' = apiWalls
    /\ BuyResults(processed') = BuyResults(processed)
    /\ priceType' = priceType => processed' = processed
    /\ processed'.totalSellLiquidity =
         SeqSum(LiquidityValues(SelectedSellList(apiWalls, priceType')))
    /\ IsFirstStrongestWall(processed'.strongestSellWall,
                            SelectedSellList(apiWalls, priceType'))
    /\ processed' = ProcessedData(apiWalls, priceType').processedData
    /\ chartProcessed' =
         ChartProcessedData(processed'.chartData, processed'.price,
                            scaleRange').processedData

\* C20: every derived value is a function of the latest raw response and the
\* parameters chosen in the UI: in pair mode a change of the pricing mode or
\* of the scale window sends no request (the key of the request is what it
\* was), leaves the raw response and the buy-side results (totalBuyLiquidity,
\* strongestBuyWall) as they were, and the results after it are those of a
\* fresh computation on the latest response with the new parameters.
C20_DerivedFromResponseAndParameters == [][C20_ParameterChange]_vars

\* the pricing mode was switched to 'current' and the window widened, the
\* two sell lists of the response differing; no request is in flight
C20_Witness ==
  /\ PairDataShown
  /\ tokens # Null
  /\ priceType = "current"
  /\ scaleRange = 50
  /\ swrPending = {}
  /\ swrData = apiWalls
  /\ Len(apiWalls.buy_walls) = 1
  /\ Len(apiWalls.sell_walls_in_wall_price) = 2
  /\ Len(apiWalls.sell_walls_in_current_price) = 0
  /\ processed.totalBuyLiquidity = 1
  /\ processed.totalSellLiquidity = 0
  /\ Len(chartProcessed) = 1

\* a call of formatPrice / formatNumber has returned
PriceFormatted == fmtCall # Null /\ fmtCall.fn = "formatPrice" /\ fmtResult # Null
NumberFormatted == fmtCall # Null /\ fmtCall.fn = "formatNumber" /\ fmtResult # Null

DecimalDigitChars == {"0", "1", "2", "3", "4", "5", "6", "7", "8", "9"}

\* the position of the point in a string, 0 when it has none
PointAt(str) ==
  IF \E i \in 1..Len(str) : str[i] = "." THEN CHOOSE i \in 1..Len(str) : str[i] = "."
  ELSE 0

\* the number of digits that follow the point of a string
DecimalsShown(str) ==
  IF PointAt(str) = 0 THEN 0
  ELSE Cardinality({k \in 1..(Len(str) - PointAt(str)) :
                      \A i \in 1..k : str[PointAt(str) + i] \in DecimalDigitChars})

\* the number of zeros that follow the point of a string before another
\* character
ZerosAfterPoint(str) ==
  IF PointAt(str) = 0 THEN 0
  ELSE Cardinality({k \in 1..(Len(str) - PointAt(str)) :
                      \A i \in 1..k : str[PointAt(str) + i] = "0"})

\* the number of zeros at the head of the digits after the point
ZerosAtHead(frac) ==
  Cardinality({k \in 1..Len(frac) : \A i \in 1..k : frac[i] = 0})

\* 0 < price < 1
IsBelowOne(price) ==
  price.int = 0 /\ \E i \in 1..Len(price.frac) : price.frac[i] # 0

\* the zeros after the point in the decimal string of a price below 1, which
\* for a price below 1e-6 is the price in 12 decimals
LeadingZerosOfPrice(price) == ZerosAfterPoint(PriceStr(price))

DecimalsForZeros(zeros) == IF zeros < 3 THEN 6 ELSE Min(zeros + 4, 12)

C16_FourSignificantDigits ==
  (PriceFormatted /\ IsBelowOne(fmtCall.price)) =>
    DecimalsShown(fmtResult.text) - LeadingZerosOfPrice(fmtCall.price) >= 4

\* the suffix the call asks for
SuffixAsked(token1Symbol) ==
  IF token1Symbol = Undefined THEN <<>>
  ELSE IF token1Symbol.text = <<>> THEN <<>>
  ELSE <<" ">> \o token1Symbol.text

EndsWith(str, suffix) ==
  /\ Len(str) >= Len(suffix)
  /\ SubSeq(str, Len(str) - Len(suffix) + 1, Len(str)) = suffix

\* C17: formatPrice chooses the decimals by the size of the price: 2 for
\* price >= 1000, 4 for 1 <= price < 1000, and a price of 0 is "0" and the
\* suffix, without decimals; the suffix, a space and the symbol, ends the
\* string in every case when a symbol is given, and there is none otherwise.
C17_PriceTiers ==
  PriceFormatted =>
    /\ fmtCall.price.int >= 1000 => DecimalsShown(fmtResult.text) = 2
    /\ (fmtCall.price.int >= 1 /\ fmtCall.price.int < 1000) =>
         DecimalsShown(fmtResult.text) = 4
    /\ IsZero(fmtCall.price) =>
         fmtResult.text = <<"0">> \o SuffixAsked(fmtCall.token1Symbol)
    /\ EndsWith(fmtResult.text, SuffixAsked(fmtCall.token1Symbol))
    /\ \A i \in 1..(Len(fmtResult.text) - Len(SuffixAsked(fmtCall.token1Symbol))) :
         fmtResult.text[i] \in DecimalDigitChars \cup {".", ","}

\* formatPrice(1000.46789, "USDC") = "1,000.47 USDC"
C17_Witness ==
  /\ PriceFormatted
  /\ fmtCall.price = [int |-> 1000, frac |-> <<4, 6, 7, 8, 9>>]
  /\ fmtResult.text =
       <<"1", ",", "0", "0", "0", ".", "4", "7", " ", "U", "S", "D", "C">>

\* the options of a formatNumber call, with their defaults
DecimalsAsked(options) ==
  IF "decimals" \in DOMAIN options THEN options.decimals ELSE 2
CompactAsked(options) == "compact" \in DOMAIN options /\ options.compact
CurrencyAsked(options) == "currency" \in DOMAIN options /\ options.currency

\* the string without its first / last character
WithoutFirst(str) == SubSeq(str, 2, Len(str))
WithoutLast(str) == SubSeq(str, 1, Len(str) - 1)

\* the string after the currency symbol
AfterCurrency(str, options) ==
  IF CurrencyAsked(options) THEN WithoutFirst(str) ELSE str

\* str is the value divided by 10^width in the decimals asked for, followed
\* by the suffix
IsCompact(str, value, options, divisor, width, suffix) ==
  /\ str[Len(str)] = suffix
  /\ WithoutLast(AfterCurrency(str, options)) =
       NumberToFixed(DividedBy(value, divisor, width), DecimalsAsked(options))

\* str is the value in grouped digits with the decimals asked for, thousands
\* separated by commas
IsGroupedFixed(str, value, options) ==
  /\ AfterCurrency(str, options) = IntlFormat(value, DecimalsAsked(options))
  /\ str[Len(str)] \in DecimalDigitChars
  /\ (\E i \in 1..Len(str) : str[i] = ",") <=>
       RoundAt(value, DecimalsAsked(options)).int >= 1000

\* C18: the compact formatter takes the first threshold the value reaches:
\* >= 1e9: the value divided by 1e9 and "B"; else >= 1e6: by 1e6 and "M";
\* else >= 1e3: by 1e3 and "K"; below 1e3, or with compact off, the grouped
\* format with fixed decimals.  The decimals are 2 unless given, and with the
\* currency flag the currency symbol comes first, in the compact format as in
\* the grouped one.
C18_CompactFormat ==
  NumberFormatted =>
    /\ DecimalsShown(fmtResult.text) = DecimalsAsked(fmtCall.options)
    /\ (fmtResult.text[1] = "$") <=> CurrencyAsked(fmtCall.options)
    /\ IF CompactAsked(fmtCall.options) /\ fmtCall.value.int >= 1000000000
       THEN IsCompact(fmtResult.text, fmtCall.value, fmtCall.options,
                      1000000000, 9, "B")
       ELSE IF CompactAsked(fmtCall.options) /\ fmtCall.value.int >= 1000000
       THEN IsCompact(fmtResult.text, fmtCall.value, fmtCall.options,
                      1000000, 6, "M")
       ELSE IF CompactAsked(fmtCall.options) /\ fmtCall.value.int >= 1000
       THEN IsCompact(fmtResult.text, fmtCall.value, fmtCall.options,
                      1000, 3, "K")
       ELSE IsGroupedFixed(fmtResult.text, fmtCall.value, fmtCall.options)

\* formatNumber(2500000, { compact: true, currency: true }) = "$2.50M"
C18_Witness ==
  /\ NumberFormatted
  /\ fmtCall.value = [int |-> 2500000, frac |-> <<>>]
  /\ fmtCall.options = [compact |-> TRUE, currency |-> TRUE]
  /\ fmtResult.text = <<"$", "2", ".", "5", "0", "M">>

\* the array in another order: element i is the one that stood at p[i]
Permuted(levels, p) == [i \in 1..Len(levels) |-> levels[p[i]]]

\* C21: in aggregate mode the totals and the strongest levels do not depend
\* on the order of price_levels: computed over any permutation of the same
\* records, totalBuyLiquidity, totalSellLiquidity and the strongest Buy and
\* Sell level are the ones shown.
C21_OrderIndependent ==
  AggregateStatsShown =>
    \A p \in Permutations(1..Len(ssData.price_levels)) :
      /\ ReduceToken1Liquidity(0, BuyLevels(Permuted(ssData.price_levels, p)))
           = stats.displayData.totalBuyLiquidity
      /\ ReduceToken1Liquidity(0, SellLevels(Permuted(ssData.price_levels, p)))
           = stats.displayData.totalSellLiquidity
      /\ StrongestLevel(BuyLevels(Permuted(ssData.price_levels, p)))
           = stats.displayData.strongestBuyLevel
      /\ StrongestLevel(SellLevels(Permuted(ssData.price_levels, p)))
           = stats.displayData.strongestSellLevel

\* one level of the side has more liquidity than every other one
HasUniqueMaximum(levels) ==
  \E i \in 1..Len(levels) :
    \A j \in 1..Len(levels) :
      j # i => levels[j].token1_liquidity < levels[i].token1_liquidity

\* the total and the strongest level shown for a side agree with those of
\* the side's levels taken in another order: the same total, the same
\* maximum, and the same level when only one level has the maximum
SideAgrees(permutedLevels, total, strongest) ==
  /\ ReduceToken1Liquidity(0, permutedLevels) = total
  /\ (StrongestLevel(permutedLevels) = Undefined) = (strongest = Undefined)
  /\ strongest # Undefined =>
       StrongestLevel(permutedLevels).token1_liquidity = strongest.token1_liquidity
  /\ HasUniqueMaximum(permutedLevels) => StrongestLevel(permutedLevels) = strongest

\* C21 (amended): in aggregate mode the totals and the liquidity of the
\* strongest Buy and Sell level do not depend on the order of price_levels,
\* and the level selected is the same for every order when a single level of
\* the side holds the maximum; among levels of equal maximal liquidity the
\* one that stands first in the array is selected.
C21_OrderIndependentUpToTies ==
  AggregateStatsShown =>
    \A p \in Permutations(1..Len(ssData.price_levels)) :
      /\ SideAgrees(BuyLevels(Permuted(ssData.price_levels, p)),
                    stats.displayData.totalBuyLiquidity,
                    stats.displayData.strongestBuyLevel)
      /\ SideAgrees(SellLevels(Permuted(ssData.price_levels, p)),
                    stats.displayData.totalSellLiquidity,
                    stats.displayData.strongestSellLevel)

\* three levels, the stronger Buy level after the weaker one
C21_Witness ==
  /\ AggregateStatsShown
  /\ Len(ssData.price_levels) = 3
  /\ ssData.price_levels[1].side = "Buy"
  /\ ssData.price_levels[1].token1_liquidity = 0
  /\ ssData.price_levels[2].side = "Buy"
  /\ ssData.price_levels[2].token1_liquidity = 1
  /\ ssData.price_levels[3].side = "Sell"
  /\ stats.displayData.totalBuyLiquidity = 1
  /\ stats.displayData.strongestBuyLevel = ssData.price_levels[2]

\* C22: the page hook's loading is true in every state in which a request it
\* sent for the current token is still in flight.
C22_LoadingWhilePending ==
  (route = AggregateRoute /\ submittedToken # Null
     /\ BagIn(submittedToken, aggPending)) => aggLoading

\* C23: once the token address is cleared and the effect has run, the page
\* hook's data is null and stays null until a token address is submitted,
\* also when a request sent before the clear is answered afterwards.
C23_ClearedStaysNull ==
  (route = AggregateRoute /\ submittedToken = Null) => aggData = Null

\* C24: the page hook's data and error are never both non-null, after any
\* interleaving of fetch starts, successes and failures.
C24_DataErrorExclusive == ~(aggData # Null /\ aggError # Null)

\* C25: on the token-aggregate page, whenever the Liquidity Overview and the
\* summary are both displayed, the overview's total liquidity (the sum of
\* token1_liquidity over all price levels of the page's response) equals the
\* summary's totalBuyLiquidity + totalSellLiquidity.
C25_SummaryOfSameResponse ==
  (route = AggregateRoute /\ stats # Null) =>
    OverviewTotalLiquidity(aggData) =
      stats.displayData.totalBuyLiquidity + stats.displayData.totalSellLiquidity

\* C26: on the home page currentView = 'analysis' holds exactly when tokens
\* is non-null, after any sequence of handlePoolSelect, handleTokensChange
\* and handleBackToPools.
C26_ViewIffTokens ==
  route = HomeRoute => ((currentView = "analysis") <=> (tokens # Null))

\* a click on a pool with fewer than 2 tokens records selectedPool and leaves
\* currentView and tokens as they were; handleBackToPools sets currentView to
\* 'pools', selectedPool to null and tokens to null together
C26_Handlers ==
  /\ (selectedPool' = SingleTokenPool /\ selectedPool # SingleTokenPool) =>
       (currentView' = currentView /\ tokens' = tokens)
  /\ (currentView = "analysis" /\ currentView' = "pools") =>
       (selectedPool' = Null /\ tokens' = Null)

C26_ViewMatchesTokens == []C26_ViewIffTokens /\ [][C26_Handlers]_vars

\* the selector set the tokens, the user went back to the pools and clicked
\* the pool with a single token
C26_Witness ==
  /\ route = HomeRoute
  /\ selectorSubmit # Null
  /\ selectorSubmit.calls # <<>>
  /\ currentView = "pools"
  /\ selectedPool = SingleTokenPool
  /\ tokens = Null

\* "0x" and exactly 40 hex digits, upper or lower case
IsHexAddress(address) ==
  /\ Len(address) = 2 + 40
  /\ SubSeq(address, 1, 2) = <<"0", "x">>
  /\ \A i \in 3..Len(address) :
       \/ address[i] \in DecimalDigitChars
       \/ address[i] \in {"a", "b", "c", "d", "e", "f"}
       \/ address[i] \in {"A", "B", "C", "D", "E", "F"}

\* the filters a submission asks for: the chain, and the DEX, undefined when
\* the field is empty
FiltersAsked(data) ==
  [chainId |-> [id |-> data.chainId],
   dex |-> IF data.dex = "" THEN Undefined ELSE [name |-> data.dex]]

\* with two valid addresses onSubmit calls onTokensChange and then
\* onFiltersChange; with an invalid address it calls neither
C29_CallsOfSubmit ==
  selectorSubmit # Null =>
    IF IsHexAddress(selectorSubmit.data.token0)
         /\ IsHexAddress(selectorSubmit.data.token1)
    THEN /\ Len(selectorSubmit.calls) = 2
         /\ selectorSubmit.calls[1] =
              [fn |-> "onTokensChange", token0 |-> selectorSubmit.data.token0,
               token1 |-> selectorSubmit.data.token1]
         /\ selectorSubmit.calls[2] =
              [fn |-> "onFiltersChange",
               newFilters |-> FiltersAsked(selectorSubmit.data)]
    ELSE selectorSubmit.calls = <<>>

\* a submission that calls nothing leaves the page's tokens and filters as
\* they were; one that calls sets them to what was submitted
C29_SubmitStep ==
  selectorSubmit' # selectorSubmit =>
    IF selectorSubmit'.calls = <<>>
    THEN tokens' = tokens /\ filters' = filters
    ELSE /\ tokens' = [token0 |-> selectorSubmit'.data.token0,
                       token1 |-> selectorSubmit'.data.token1]
         /\ filters' = FiltersAsked(selectorSubmit'.data)

\* C29: TokenSelector.onSubmit calls onTokensChange and onFiltersChange only
\* when both addresses are "0x" followed by exactly 40 hex digits of either
\* case: then both are called, tokens first, the DEX undefined when empty;
\* with an invalid address neither is called and the page's tokens and
\* filters stay as they were.
C29_SubmitValidated == []C29_CallsOfSubmit /\ [][C29_SubmitStep]_vars

\* a mixed-case pair was submitted with the DEX left empty
C29_Witness ==
  /\ selectorSubmit # Null
  /\ selectorSubmit.data.token1 = Address("A")
  /\ Len(selectorSubmit.calls) = 2
  /\ tokens # Null
  /\ tokens.token1 = Address("A")
  /\ filters = [chainId |-> [id |-> 1], dex |-> Undefined]

\* the pool list is on its first page, nothing of usePoolData is in flight
\* and the pools held are pools of the selected DEX
FirstPageSettled ==
  /\ PoolHookSettled
  /\ currentPage = FirstPage
  /\ pools.request.dex = selectedDex

\* C27: changing the DEX filter of the pool list sets currentPage back to 1,
\* and once every fetch the change started has completed, in whatever order,
\* the pools shown are page 1 of the selected DEX, never the intermediate
\* (new DEX, old page) result.
C27_DexChangeShowsFirstPage ==
  /\ [](FirstPageSettled => pools.request.page = FirstPage)
  /\ [][selectedDex' # selectedDex => currentPage' = FirstPage]_vars

\* C28: whenever the pool list is past its first page and neither loads nor
\* shows an error, the pagination control is rendered, so that the user can
\* go back to an earlier page.
C28_PaginationPastFirstPage ==
  (PoolControlsShown /\ currentPage > FirstPage) => pools.full

\* the digits that stand before the point of a formatted number, or before
\* its suffix when it has no point, the currency sign left out
IntegerDigits(str) ==
  Cardinality({k \in 1..Len(str) :
                 \A i \in 1..k :
                   str[i + (IF str[1] = "$" THEN 1 ELSE 0)] \in DecimalDigitChars})

\* C30: in compact mode the number formatNumber prints before a K or an M is
\* below 1000 after the rounding to the decimals asked for: a value just
\* under the next threshold, as 999,999.999 with 2 decimals, is not printed
\* as "1000.00K" or "1000.00M".
C30_CompactBelowThousand ==
  (NumberFormatted /\ fmtResult.text[Len(fmtResult.text)] \in {"K", "M"}) =>
    IntegerDigits(fmtResult.text) <= 3

====
